---------------------------- MODULE Spec2Model ----------------------------
(***************************************************************************)
(* Legal-Mind-AI query orchestration engine.                               *)
(*                                                                         *)
(* The model follows src/agents/orchestrator.py (LegalMindOrchestrator,    *)
(* QueryComplexityAnalyzer) and src/agents/legal_orchestrator.py (the      *)
(* multi-agent front end that calls orchestrator.process_query once per    *)
(* selected agent).                                                        *)
(*                                                                         *)
(* Text is modelled by TLA+ strings, character for character.  A code      *)
(* point of the source outside printable ASCII (the emoji of the canned    *)
(* texts) is written "~", one "~" per code point, so that every length is  *)
(* the length the program computes.  Python's None is written "" where the *)
(* code only tests the value's truthiness (Optional[str]) and 0 where the  *)
(* value is an Optional[int] tested with "if not".                         *)
(***************************************************************************)
EXTENDS Integers, Sequences, FiniteSets, TLC

(***************************************************************************)
(* Python str operations                                                   *)
(***************************************************************************)

\* s[i] (1-based), "" outside the string
Char(s, i) == IF i >= 1 /\ i <= Len(s) THEN SubSeq(s, i, i) ELSE ""

\* s[:n] for n >= 0
Prefix(s, n) == SubSeq(s, 1, IF n < Len(s) THEN n ELSE Len(s))

\* s[n:] for n >= 0 (0-based start)
Suffix(s, n) == SubSeq(s, n + 1, Len(s))

UpperChars == "ABCDEFGHIJKLMNOPQRSTUVWXYZ"

LowerChars == "abcdefghijklmnopqrstuvwxyz"

Digits == "0123456789"

LowerChar(c) ==
    IF \E i \in 1..26 : Char(UpperChars, i) = c
    THEN Char(LowerChars, CHOOSE i \in 1..26 : Char(UpperChars, i) = c)
    ELSE c

RECURSIVE Lower(_)
\* str.lower(), ASCII
Lower(s) ==
    IF Len(s) = 0 THEN ""
    ELSE IF Len(s) = 1 THEN LowerChar(s)
    ELSE LET h == Len(s) \div 2
         IN  Lower(SubSeq(s, 1, h)) \o Lower(SubSeq(s, h + 1, Len(s)))

\* sub occurs in s at 1-based position i
OccursAt(sub, s, i) ==
    /\ i >= 1
    /\ i + Len(sub) - 1 <= Len(s)
    /\ SubSeq(s, i, i + Len(sub) - 1) = sub

\* sub in s
Contains(sub, s) == \E i \in 1..(Len(s) - Len(sub) + 1) : OccursAt(sub, s, i)

\* s.find(sub) + 1: the first position of sub in s, 0 when there is none
Find(sub, s) ==
    IF Contains(sub, s)
    THEN CHOOSE i \in 1..(Len(s) - Len(sub) + 1) :
            /\ OccursAt(sub, s, i)
            /\ \A j \in 1..(i - 1) : ~OccursAt(sub, s, j)
    ELSE 0

StartsWith(s, p) == Len(p) <= Len(s) /\ SubSeq(s, 1, Len(p)) = p

EndsWith(s, p) == Len(p) <= Len(s) /\ SubSeq(s, Len(s) - Len(p) + 1, Len(s)) = p

\* s.count(c) for a one-character c
CountChar(c, s) == Cardinality({i \in 1..Len(s) : Char(s, i) = c})

IsSpace(c) == c \in {" ", "\n", "\t", "\r", "\f"}

IsDigit(c) == c # "" /\ \E i \in 1..10 : Char(Digits, i) = c

\* s.strip()
Strip(s) ==
    LET keep == {i \in 1..Len(s) : ~IsSpace(Char(s, i))}
    IN  IF keep = {} THEN ""
        ELSE SubSeq(s, CHOOSE i \in keep : \A j \in keep : i <= j,
                       CHOOSE i \in keep : \A j \in keep : i >= j)

RECURSIVE Split(_, _)
\* s.split(sep) for a non-empty separator
Split(s, sep) ==
    LET i == Find(sep, s)
    IN  IF i = 0 THEN <<s>>
        ELSE <<SubSeq(s, 1, i - 1)>> \o Split(Suffix(s, i + Len(sep) - 1), sep)

\* len(s.split()): the number of whitespace-separated words
WordCount(s) ==
    Cardinality({i \in 1..Len(s) :
        ~IsSpace(Char(s, i)) /\ (i = 1 \/ IsSpace(Char(s, i - 1)))})

RECURSIVE Join(_, _)
\* sep.join(parts)
Join(parts, sep) ==
    IF Len(parts) = 0 THEN ""
    ELSE IF Len(parts) = 1 THEN parts[1]
    ELSE parts[1] \o sep \o Join(Tail(parts), sep)

\* s.replace(old, new) for an old that occurs at most once in s
ReplaceOnce(s, old, new) ==
    LET i == Find(old, s)
    IN  IF i = 0 THEN s
        ELSE SubSeq(s, 1, i - 1) \o new \o Suffix(s, i + Len(old) - 1)

\* any(keyword in s for keyword in keywords)
AnyIn(keywords, s) == \E k \in keywords : Contains(k, s)


(***************************************************************************)
(* QueryComplexityAnalyzer                                                 *)
(***************************************************************************)

\* the lines of the query that count as numbered or bulleted points
NumberedPoints(query) ==
    LET lines == Split(query, "\n")
    IN  Cardinality({i \in 1..Len(lines) :
            /\ Strip(lines[i]) # ""
            /\ \/ IsDigit(Char(Strip(lines[i]), 1))
               \/ StartsWith(Strip(lines[i]), "-")})

\* faulty variant of ComplexityScore (the compound bonus only with exactly one
\* question mark), for C29
ComplexityScore_exactly_one_question(query) ==
      (IF WordCount(query) > 50 THEN 2 ELSE 0)
    + (IF WordCount(query) > 100 THEN 2 ELSE 0)
    + (IF CountChar("?", query) > 1 THEN 3 ELSE 0)
    + (IF NumberedPoints(query) > 2 THEN 2 ELSE 0)
    + (IF Contains(" and ", Lower(query)) /\ CountChar("?", query) = 1 THEN 4 ELSE 0)
    + (IF CountChar(",", query) > 2 THEN 2 ELSE 0)

\* faulty variant of ComplexityScore (the comma bonus from two commas on), for C27
ComplexityScore_two_commas(query) ==
      (IF WordCount(query) > 50 THEN 2 ELSE 0)
    + (IF WordCount(query) > 100 THEN 2 ELSE 0)
    + (IF CountChar("?", query) > 1 THEN 3 ELSE 0)
    + (IF NumberedPoints(query) > 2 THEN 2 ELSE 0)
    + (IF Contains(" and ", Lower(query)) /\ Contains("?", query) THEN 4 ELSE 0)
    + (IF CountChar(",", query) >= 2 THEN 2 ELSE 0)

\* complexity_score of analyze_complexity
ComplexityScore(query) ==
      (IF WordCount(query) > 50 THEN 2 ELSE 0)
    + (IF WordCount(query) > 100 THEN 2 ELSE 0)
    + (IF CountChar("?", query) > 1 THEN 3 ELSE 0)
    + (IF NumberedPoints(query) > 2 THEN 2 ELSE 0)
    + (IF Contains(" and ", Lower(query)) /\ Contains("?", query) THEN 4 ELSE 0)
    + (IF CountChar(",", query) > 2 THEN 2 ELSE 0)

\* faulty variant of ComplexityLevel (the first threshold met wins), for C28
ComplexityLevel_first_met(score) ==
    IF score >= 3 THEN "moderate"
    ELSE IF score >= 6 THEN "complex"
    ELSE IF score >= 8 THEN "very_complex"
    ELSE "simple"

\* complexity_level: every threshold is tested, the last one met wins
ComplexityLevel(score) ==
    LET l0 == "simple"
        l1 == IF score >= 3 THEN "moderate" ELSE l0
        l2 == IF score >= 6 THEN "complex" ELSE l1
        l3 == IF score >= 8 THEN "very_complex" ELSE l2
    IN  l3

Min(a, b) == IF a < b THEN a ELSE b

analyze_complexity(query) ==
    LET score == ComplexityScore(query)
    IN  [complexity_level |-> ComplexityLevel(score),
         complexity_score |-> score,
         word_count |-> WordCount(query),
         question_count |-> CountChar("?", query),
         numbered_points |-> NumberedPoints(query),
         has_compound_question |->
             Contains(" and ", Lower(query)) /\ Contains("?", query),
         has_multiple_topics |-> CountChar(",", query) > 2,
         requires_chunking |-> score >= 6,
         requires_specialized_processing |-> score >= 4,
         estimated_processing_time |-> Min(30 + score * 5, 60)]

(***************************************************************************)
(* _handle_basic_queries                                                   *)
(***************************************************************************)

greetings ==
    {"hello", "hi", "hey", "good morning", "good afternoon",
     "good evening", "greetings", "howdy", "what's up"}

help_patterns ==
    {"help", "what can you do", "what do you do", "how can you help",
     "what are your capabilities", "what can i ask you", "commands",
     "how do you work", "what's your purpose", "what are you"}

simple_queries == {"ok", "okay", "thanks", "thank you", "yes", "no", "sure"}

GreetingResponse ==
    "Hello! ~~~~ I'm Legal-Mind-AI, a specialized AI assistant focused on providing insights related to AI Law, Policy, and Regulation. I can help you with:\n\n~~~ **AI Policy & Regulations** - EU AI Act, NIST frameworks, GDPR compliance\n~~~~ **Latest News** - Recent developments in AI governance\n~~~~ **Compliance Analysis** - Requirements and best practices\n~~~~ **Report Generation** - Detailed policy analysis reports\n\nHow may I assist you today? Feel free to ask about any AI governance topic!"

HelpResponse ==
    "~~~~ **Legal-Mind-AI Help Center**\n\nI'm your AI policy expert! Here's what I can help you with:\n\n**~~~~ Policy Guidance:**\n~~~ EU AI Act requirements and compliance\n~~~ NIST AI Risk Management Framework\n~~~ GDPR implications for AI systems\n~~~ International AI governance standards\n\n**~~~~ News & Updates:**\n~~~ Latest AI policy developments\n~~~ Regulatory announcements\n~~~ Compliance deadlines\n\n**~~~~ Analysis & Reports:**\n~~~ Risk assessments\n~~~ Compliance gap analysis\n~~~ Policy comparison reports\n\n**Example questions:**\n~~~ 'What are the key requirements of the EU AI Act?'\n~~~ 'How do I ensure GDPR compliance for my AI system?'\n~~~ 'What's the latest news in AI regulation?'\n~~~ 'Generate a compliance report for my AI project'\n\nWhat would you like to know about AI governance today?"

SimpleResponse ==
    "You're welcome! I'm here to help with any AI policy, regulation, or governance questions you might have. What would you like to explore?"

\* query.lower().strip() with the Teams mention removed, stripped again
QueryClean(query) ==
    LET query_lower == Strip(Lower(query))
        mention == "<at>legal-mind-ai</at>"
        RECURSIVE RemoveAll(_)
        RemoveAll(s) ==
            LET i == Find(mention, s)
            IN  IF i = 0 THEN s
                ELSE SubSeq(s, 1, i - 1) \o RemoveAll(Suffix(s, i + Len(mention) - 1))
    IN  Strip(RemoveAll(query_lower))

IsGreeting(query_clean) ==
    \E g \in greetings :
        \/ query_clean = g
        \/ StartsWith(query_clean, g \o " ")
        \/ EndsWith(query_clean, " " \o g)

\* the canned response, or "" (None) when the query goes on to the agents
handle_basic_queries(query) ==
    LET query_clean == QueryClean(query)
    IN  IF IsGreeting(query_clean) THEN GreetingResponse
        ELSE IF AnyIn(help_patterns, query_clean) THEN HelpResponse
        ELSE IF query_clean \in simple_queries THEN SimpleResponse
        ELSE ""

(***************************************************************************)
(* _break_down_complex_query                                               *)
(***************************************************************************)

WithQuestionMark(s) == IF EndsWith(s, "?") THEN s ELSE s \o "?"

\* a stripped, non-empty line that starts a new section
IsNewSection(line, current_part) ==
    \/ IsDigit(Char(line, 1)) /\ Contains(". ", line)
    \/ StartsWith(line, "-")
    \/ StartsWith(line, "~~~")
    \/ EndsWith(line, "?") /\ Len(current_part) > 0

RECURSIVE ScanLines(_, _, _, _)
\* the loop over lines[i..], with the parts flushed so far and the open part
ScanLines(lines, i, parts, current_part) ==
    IF i > Len(lines)
    THEN IF Len(current_part) > 0
         THEN Append(parts, Join(current_part, "\n"))
         ELSE parts
    ELSE LET line == Strip(lines[i])
         IN  IF line = "" THEN ScanLines(lines, i + 1, parts, current_part)
             ELSE IF IsNewSection(line, current_part) /\ Len(current_part) > 0
             THEN ScanLines(lines, i + 1,
                            Append(parts, Join(current_part, "\n")), <<line>>)
             ELSE ScanLines(lines, i + 1, parts, Append(current_part, line))

\* faulty variant of break_down_complex_query (a single section is returned
\* as the scan built it, not as the query came in), for C25
break_down_complex_query_scanned(query) ==
    LET andParts == Split(query, " and ")
        parts == ScanLines(Split(query, "\n"), 1, <<>>, <<>>)
    IN  IF /\ Contains(" and ", Lower(query))
           /\ CountChar("?", query) = 1
           /\ Len(andParts) = 2
        THEN <<WithQuestionMark(Strip(andParts[1])),
               WithQuestionMark(Strip(andParts[2]))>>
        ELSE IF Len(parts) = 0 THEN <<query>> ELSE parts

\* faulty variant of break_down_complex_query (the undivided query gets a
\* question mark appended), for C26
break_down_complex_query_marked(query) ==
    LET andParts == Split(query, " and ")
        parts == ScanLines(Split(query, "\n"), 1, <<>>, <<>>)
    IN  IF /\ Contains(" and ", Lower(query))
           /\ CountChar("?", query) = 1
           /\ Len(andParts) = 2
        THEN <<WithQuestionMark(Strip(andParts[1])),
               WithQuestionMark(Strip(andParts[2]))>>
        ELSE IF Len(parts) <= 1 THEN <<query \o "?">> ELSE parts

break_down_complex_query(query) ==
    LET andParts == Split(query, " and ")
        parts == ScanLines(Split(query, "\n"), 1, <<>>, <<>>)
    IN  IF /\ Contains(" and ", Lower(query))
           /\ CountChar("?", query) = 1
           /\ Len(andParts) = 2
        THEN <<WithQuestionMark(Strip(andParts[1])),
               WithQuestionMark(Strip(andParts[2]))>>
        ELSE IF Len(parts) <= 1 THEN <<query>> ELSE parts

(***************************************************************************)
(* Prompts                                                                 *)
(***************************************************************************)

create_enhanced_complex_prompt(query) ==
    "\nAs a Legal AI Policy Expert, please provide a concise but comprehensive response to this query. \n\nIMPORTANT: Please limit your response to approximately 3000 characters to ensure readability.\n\nStructure your response with:\n1. Key points summary (bullet format)\n2. Specific regulatory references (where applicable)\n3. Brief implementation guidance\n4. Main takeaways\n\nQuery: "
    \o query
    \o "\n\nPlease focus on the most critical information and provide actionable insights within the length constraints.\n        "

create_focused_prompt(query_part, part_number, total_parts) ==
    "\nAs a Legal AI Policy Expert, this is part " \o ToString(part_number)
    \o " of " \o ToString(total_parts)
    \o " of a comprehensive analysis. \n\nIMPORTANT: Please limit your response to approximately 2500 characters for this part.\n\nPlease provide a focused response to:\n"
    \o query_part
    \o "\n\nInclude:\n- Key points in bullet format\n- Specific regulatory references\n- Brief actionable guidance\n\nFocus on the most essential information for this specific aspect.\n        "

\* AgentType values
POLICY_EXPERT == "policy_expert"

NEWS_MONITOR == "news_monitor"

DOCUMENT_ANALYZER == "document_analyzer"

REPORT_GENERATOR == "report_generator"

create_specialized_prompt(original_query, agent_type) ==
    IF agent_type = POLICY_EXPERT THEN
        "\n            As a Legal AI Policy Expert, please analyze the following query with focus on:\n            - Relevant AI policies, regulations, and frameworks\n            - Compliance requirements and implications\n            - Best practices and recommendations\n            - Cite specific sections and sources where applicable\n            \n            Query: "
        \o original_query \o "\n            "
    ELSE IF agent_type = NEWS_MONITOR THEN
        "\n            As an AI Policy News Monitor, please provide:\n            - Latest developments and news related to the query\n            - Recent policy changes or announcements\n            - Upcoming deadlines or important dates\n            - Trending topics in AI governance\n            \n            Query: "
        \o original_query \o "\n            "
    ELSE IF agent_type = DOCUMENT_ANALYZER THEN
        "\n            As a Document Analysis Expert, please:\n            - Analyze and summarize relevant documents\n            - Compare different policy frameworks\n            - Extract key requirements and obligations\n            - Identify potential conflicts or gaps\n            \n            Query: "
        \o original_query \o "\n            "
    ELSE IF agent_type = REPORT_GENERATOR THEN
        "\n            As a Report Generation Specialist, please create:\n            - A comprehensive, well-structured analysis\n            - Executive summary and key findings\n            - Actionable recommendations\n            - Professional formatting suitable for stakeholders\n            \n            Query: "
        \o original_query \o "\n            "
    ELSE original_query

RECURSIVE ContextLines(_, _)
\* the numbered entries of the context section for results[i..], at most 3
ContextLines(results, i) ==
    IF i > Len(results) \/ i > 3 THEN ""
    ELSE "\n" \o ToString(i) \o ". **" \o results[i].title
         \o "** (Source: " \o results[i].source \o ")\n"
         \o "   " \o Prefix(results[i].content, 200) \o "...\n"
         \o (IF results[i].url # "" THEN "   URL: " \o results[i].url \o "\n" ELSE "")
         \o ContextLines(results, i + 1)

\* the first occurrence of old in s replaced; the prompts hold "Query: " once
\* before the query, and str.replace would also rewrite a later occurrence
\* inside the query, which the sample queries do not contain
create_search_enhanced_prompt(original_query, agent_type, search_context) ==
    LET base_prompt == create_specialized_prompt(original_query, agent_type)
        context_section ==
            "\n\n**RELEVANT CONTEXT FROM SEARCH:**\n"
            \o ContextLines(search_context.results, 1)
            \o "\n**Sources:** " \o Join(search_context.sources, ", ") \o "\n"
            \o "\nPlease incorporate relevant information from the above context into your response, citing sources where appropriate.\n"
    IN  IF Len(search_context.results) > 0
        THEN ReplaceOnce(base_prompt, "Query: " \o original_query,
                         context_section \o "\nQuery: " \o original_query)
        ELSE base_prompt

\* agent_type.value.replace('_', ' ').title()
AgentTitle(agent_type) ==
    IF agent_type = POLICY_EXPERT THEN "Policy Expert"
    ELSE IF agent_type = NEWS_MONITOR THEN "News Monitor"
    ELSE IF agent_type = DOCUMENT_ANALYZER THEN "Document Analyzer"
    ELSE "Report Generator"

RECURSIVE SynthesisEntries(_, _)
SynthesisEntries(responses, i) ==
    IF i > Len(responses) THEN ""
    ELSE "\n\n" \o ToString(i) \o ". " \o AgentTitle(responses[i].agent_type)
         \o " Analysis:\n" \o responses[i].content
         \o SynthesisEntries(responses, i + 1)

synthesis_prompt(query, responses) ==
    "\n        Please synthesize the following expert responses into a comprehensive, coherent answer to the user's query: \""
    \o query \o "\"\n        \n        Expert Responses:\n        "
    \o SynthesisEntries(responses, 1)
    \o "\n        \n        Please provide a unified response that:\n        - Integrates all relevant insights\n        - Maintains clarity and readability\n        - Highlights key actionable items\n        - Cites sources where appropriate\n        - Avoids redundancy while preserving important details\n        "

(***************************************************************************)
(* Retry configuration and the retry decision of                           *)
(* _execute_single_agent_with_retry                                        *)
(***************************************************************************)

\* faulty variant of max_retries (one retry too many), for C2
max_retries_plus_one == 3 + 1

max_retries == 3

base_retry_delay == 5

max_retry_delay == 60

max_wait_time == 90

poll_interval == 2

TimeoutRetryDelay == 5

GenericRetryDelay == 2

InterPartDelay == 2

RECURSIVE ParseInt(_)
\* int(digits) for a non-empty string of decimal digits
ParseInt(digits) ==
    IF Len(digits) = 0 THEN 0
    ELSE 10 * ParseInt(SubSeq(digits, 1, Len(digits) - 1))
         + ((CHOOSE i \in 1..10 : Char(Digits, i) = Char(digits, Len(digits))) - 1)

\* the length of the longest run of digits of s that starts at position i
DigitRun(s, i) ==
    LET ends == {j \in i..Len(s) : \A k \in i..j : IsDigit(Char(s, k))}
    IN  IF ends = {} THEN 0
        ELSE (CHOOSE j \in ends : \A k \in ends : j >= k) - i + 1

\* re.search(r'try again in (\d+) seconds?', error_message.lower()) matches at i
WaitMatchAt(lowered, i) ==
    /\ OccursAt("try again in ", lowered, i)
    /\ DigitRun(lowered, i + 13) > 0
    /\ OccursAt(" second", lowered, i + 13 + DigitRun(lowered, i + 13))

\* faulty variant of extract_wait_time (the 1 second buffer is left out), for C14
extract_wait_time_no_buffer(error_message) ==
    LET lowered == Lower(error_message)
        hits == {i \in 1..Len(lowered) : WaitMatchAt(lowered, i)}
    IN  IF hits = {} THEN 0
        ELSE LET i == CHOOSE h \in hits : \A k \in hits : h <= k
             IN  ParseInt(SubSeq(lowered, i + 13,
                                 i + 12 + DigitRun(lowered, i + 13)))

\* the wait in seconds with its 1 second buffer, or 0 (None) without a match
extract_wait_time(error_message) ==
    LET lowered == Lower(error_message)
        hits == {i \in 1..Len(lowered) : WaitMatchAt(lowered, i)}
    IN  IF hits = {} THEN 0
        ELSE LET i == CHOOSE h \in hits : \A k \in hits : h <= k
             IN  ParseInt(SubSeq(lowered, i + 13,
                                 i + 12 + DigitRun(lowered, i + 13))) + 1

RECURSIVE Pow2(_)
Pow2(n) == IF n = 0 THEN 1 ELSE 2 * Pow2(n - 1)

IsRateLimit(error_str) == Contains("rate_limit_exceeded", Lower(error_str))

IsTimeoutLike(error_str) ==
    Contains("timeout", Lower(error_str)) \/ Contains("time", Lower(error_str))

\* faulty variant of RateLimitWait (the backoff grows linearly), for C15
RateLimitWait_linear(error_str, attempt) ==
    IF extract_wait_time(error_str) # 0
    THEN extract_wait_time(error_str)
    ELSE Min(base_retry_delay * (attempt + 1), max_retry_delay)

\* the wait before the retry after a rate-limit failure of this attempt
RateLimitWait(error_str, attempt) ==
    IF extract_wait_time(error_str) # 0
    THEN extract_wait_time(error_str)
    ELSE Min(base_retry_delay * Pow2(attempt), max_retry_delay)

\* faulty variant of RetryDecision (the last attempt is not told apart: the
\* handler sleeps 2 seconds and leaves the loop), for C17
RetryDecision_no_last_raise(error_str, attempt) ==
    IF IsRateLimit(error_str) /\ attempt < max_retries
    THEN [retry |-> TRUE, wait |-> RateLimitWait(error_str, attempt),
          branch |-> "rate_limit", hinted |-> extract_wait_time(error_str) # 0]
    ELSE IF IsTimeoutLike(error_str) /\ attempt < max_retries
    THEN [retry |-> TRUE, wait |-> TimeoutRetryDelay,
          branch |-> "timeout", hinted |-> FALSE]
    ELSE [retry |-> TRUE, wait |-> GenericRetryDelay,
          branch |-> "other", hinted |-> FALSE]

\* faulty variant of RetryDecision (a timeout sleeps and retries whatever the
\* attempt is), for C18
RetryDecision_timeout_always_sleeps(error_str, attempt) ==
    IF IsRateLimit(error_str) /\ attempt < max_retries
    THEN [retry |-> TRUE, wait |-> RateLimitWait(error_str, attempt),
          branch |-> "rate_limit", hinted |-> extract_wait_time(error_str) # 0]
    ELSE IF IsTimeoutLike(error_str)
    THEN [retry |-> TRUE, wait |-> TimeoutRetryDelay,
          branch |-> "timeout", hinted |-> FALSE]
    ELSE IF attempt = max_retries
    THEN [retry |-> FALSE, wait |-> 0, branch |-> "raise", hinted |-> FALSE]
    ELSE [retry |-> TRUE, wait |-> GenericRetryDelay,
          branch |-> "other", hinted |-> FALSE]

\* what the except block of one attempt does: sleep and go on to the next
\* attempt, or raise the error
RetryDecision(error_str, attempt) ==
    IF IsRateLimit(error_str) /\ attempt < max_retries
    THEN [retry |-> TRUE, wait |-> RateLimitWait(error_str, attempt),
          branch |-> "rate_limit", hinted |-> extract_wait_time(error_str) # 0]
    ELSE IF IsTimeoutLike(error_str) /\ attempt < max_retries
    THEN [retry |-> TRUE, wait |-> TimeoutRetryDelay,
          branch |-> "timeout", hinted |-> FALSE]
    ELSE IF attempt = max_retries
    THEN [retry |-> FALSE, wait |-> 0, branch |-> "raise", hinted |-> FALSE]
    ELSE [retry |-> TRUE, wait |-> GenericRetryDelay,
          branch |-> "other", hinted |-> FALSE]

(***************************************************************************)
(* Output formatting, chunking, error responses                            *)
(***************************************************************************)

format_output(output_format, response) ==
    IF output_format = "pdf"
    THEN response \o "\n\n~~~~ *PDF report generation will be implemented in the next phase.*"
    ELSE IF output_format = "email"
    THEN response \o "\n\n~~~~ *Email delivery will be implemented in the next phase.*"
    ELSE response

\* s[:n] of Python, n of either sign
SliceTo(s, n) ==
    IF n >= 0 THEN Prefix(s, n)
    ELSE IF Len(s) + n > 0 THEN Prefix(s, Len(s) + n) ELSE ""

RECURSIVE ChunkSentences(_, _, _, _)
\* the loop over sentences[i..] of one over-long paragraph; st holds the
\* chunks closed so far and the chunk being filled
ChunkSentences(sentences, i, st, max_length) ==
    IF i > Len(sentences) THEN st
    ELSE LET sentence == sentences[i]
         IN  IF Len(st.current_chunk) + Len(sentence) + 2 > max_length
             THEN IF st.current_chunk # ""
                  THEN ChunkSentences(sentences, i + 1,
                         [chunks |-> Append(st.chunks, Strip(st.current_chunk)),
                          current_chunk |-> sentence \o ". "], max_length)
                  ELSE ChunkSentences(sentences, i + 1,
                         [chunks |-> Append(st.chunks,
                                       SliceTo(sentence, max_length - 20) \o "..."),
                          current_chunk |-> ""], max_length)
             ELSE ChunkSentences(sentences, i + 1,
                    [chunks |-> st.chunks,
                     current_chunk |-> st.current_chunk \o sentence \o ". "],
                    max_length)

RECURSIVE ChunkParagraphs(_, _, _, _)
\* the loop over paragraphs[i..]
ChunkParagraphs(paragraphs, i, st, max_length) ==
    IF i > Len(paragraphs) THEN st
    ELSE LET paragraph == paragraphs[i]
         IN  IF Len(st.current_chunk) + Len(paragraph) + 2 > max_length
             THEN IF st.current_chunk # ""
                  THEN ChunkParagraphs(paragraphs, i + 1,
                         [chunks |-> Append(st.chunks, Strip(st.current_chunk)),
                          current_chunk |-> paragraph \o "\n\n"], max_length)
                  ELSE ChunkParagraphs(paragraphs, i + 1,
                         ChunkSentences(Split(paragraph, ". "), 1, st, max_length),
                         max_length)
             ELSE ChunkParagraphs(paragraphs, i + 1,
                    [chunks |-> st.chunks,
                     current_chunk |-> st.current_chunk \o paragraph \o "\n\n"],
                    max_length)

\* the chunks list of _chunk_response for a response longer than max_length
Chunks(response, max_length) ==
    LET st == ChunkParagraphs(Split(response, "\n\n"), 1,
                              [chunks |-> <<>>, current_chunk |-> ""], max_length)
    IN  IF st.current_chunk # ""
        THEN Append(st.chunks, Strip(st.current_chunk))
        ELSE st.chunks

ContinuationNotice(n) ==
    "\n\n~~~~ **This is part 1 of " \o ToString(n)
    \o ".** Due to length limits, please ask for the next part to continue."

chunk_response(response, max_length) ==
    IF Len(response) <= max_length THEN response
    ELSE LET chunks == Chunks(response, max_length)
         IN  IF Len(chunks) > 1
             THEN chunks[1] \o ContinuationNotice(Len(chunks))
             ELSE response

\* faulty variant of format_and_chunk_output (the requires_chunking flag of
\* the analysis is not consulted), for C13
format_and_chunk_output_unflagged(context, response, complexity_analysis) ==
    LET formatted_response == format_output(context.output_format, response)
    IN  IF /\ context.enable_chunking
           /\ Len(formatted_response) > context.max_response_length
        THEN chunk_response(formatted_response, context.max_response_length)
        ELSE formatted_response

format_and_chunk_output(context, response, complexity_analysis) ==
    LET formatted_response == format_output(context.output_format, response)
    IN  IF /\ context.enable_chunking
           /\ Len(formatted_response) > context.max_response_length
           /\ complexity_analysis.requires_chunking
        THEN chunk_response(formatted_response, context.max_response_length)
        ELSE formatted_response

RateLimitMessage ==
    "\n~~~~ **System Temporarily Busy**\n\nI'm currently experiencing high demand. This is a temporary issue that typically resolves within a few moments.\n\n**Please try:**\n1. Waiting 30 seconds and resending your query\n2. Breaking complex questions into smaller parts\n3. Asking one question at a time\n\nI apologize for the inconvenience and appreciate your patience! ~~~\n            "

TimeoutMessage ==
    "\n~~~~ **Query Processing Timeout**\n\nYour query was quite complex and took longer than expected to process.\n\n**Please try:**\n1. Breaking your question into smaller, more specific parts\n2. Asking about one topic at a time\n3. Using more specific keywords in your query\n\nI'm ready to help with more focused questions! ~~~~\n            "

GenericMessageHead ==
    "\n~~ **Processing Error**\n\nI encountered an unexpected error while processing your request.\n\n**What you can do:**\n1. Try rephrasing your question\n2. Break complex queries into simpler parts\n3. Contact support if the issue persists\n\nError details: "

GenericMessageTail == "\n            "

ErrorDetailLen == 100

generate_error_response(error) ==
    IF Contains("rate_limit_exceeded", Lower(error)) THEN RateLimitMessage
    ELSE IF Contains("timeout", Lower(error)) THEN TimeoutMessage
    ELSE GenericMessageHead \o Prefix(error, ErrorDetailLen)
         \o (IF Len(error) > ErrorDetailLen THEN "..." ELSE "")
         \o GenericMessageTail

(***************************************************************************)
(* _analyze_query_requirements                                             *)
(***************************************************************************)

policy_keywords ==
    {"eu ai act", "nist", "iso", "aida", "policy", "regulation", "compliance",
     "governance", "framework", "standard", "guideline", "requirement"}

news_keywords ==
    {"latest", "recent", "news", "update", "announcement", "current",
     "today", "this week", "this month", "development"}

doc_keywords ==
    {"analyze", "document", "file", "pdf", "review", "examine",
     "compare", "contrast", "summarize"}

report_keywords ==
    {"report", "summary", "overview", "comprehensive", "detailed",
     "analysis", "pdf", "email", "send"}

\* the required agents, in the order the code appends them
analyze_query_requirements(query) ==
    LET query_lower == Lower(query)
        found ==
            (IF AnyIn(policy_keywords, query_lower) THEN <<POLICY_EXPERT>> ELSE <<>>)
            \o (IF AnyIn(news_keywords, query_lower) THEN <<NEWS_MONITOR>> ELSE <<>>)
            \o (IF AnyIn(doc_keywords, query_lower) THEN <<DOCUMENT_ANALYZER>> ELSE <<>>)
            \o (IF AnyIn(report_keywords, query_lower) THEN <<REPORT_GENERATOR>> ELSE <<>>)
    IN  IF found = <<>> THEN <<POLICY_EXPERT>> ELSE found

\* faulty variant of RequirementsOutputFormat (every query analysed is taken
\* for a report), for C36
RequirementsOutputFormat_always_pdf(context) == "pdf"

\* the side effect of _analyze_query_requirements on context.output_format
RequirementsOutputFormat(context) ==
    IF AnyIn(report_keywords, Lower(context.query)) THEN "pdf"
    ELSE context.output_format

(***************************************************************************)
(* Configuration read from the environment in __init__                     *)
(***************************************************************************)

\* AZURE_AGENT_ID
main_agent_id == "asst_main"

\* the specialised agent ids; "" is an unset variable (None)
agents ==
    [policy_expert |-> "asst_policy", news_monitor |-> "",
     document_analyzer |-> "", report_generator |-> "asst_report"]

\* self.agents.get(agent_type) or self.main_agent_id
AgentIdFor(agent_type) ==
    IF agents[agent_type] # "" THEN agents[agent_type] ELSE main_agent_id

\* the members of the SearchType enum
SearchTypeMembers == {"LEGAL_CORPUS", "CURRENT_NEWS", "WEB_SEARCH", "MIXED"}

NewsUnavailableMessage ==
    "~~~~~ **News Search Temporarily Unavailable**\n\nI'm having trouble accessing real-time news sources right now. Please try again in a moment, or ask me about established AI policy topics that I can help with from my knowledge base."

NoNewsMessage ==
    "~~~~ **No recent news found** for your query.\n\nThis might be because:\n~~~ The topic is very new or specific\n~~~ There are no recent developments\n~~~ Try rephrasing with broader terms\n\nYou can also ask me about established AI policy topics!"

RECURSIVE NewsEntries(_, _)
NewsEntries(results, i) ==
    IF i > Len(results) THEN ""
    ELSE "**" \o ToString(i) \o ". " \o results[i].title \o "**\n"
         \o "*Source: " \o results[i].source \o "*\n\n"
         \o (IF Len(results[i].content) > 300
             THEN Prefix(results[i].content, 300) \o "..."
             ELSE results[i].content) \o "\n"
         \o (IF results[i].url # ""
             THEN "~~~~ [Read more](" \o results[i].url \o ")\n" ELSE "")
         \o "\n---\n\n"
         \o NewsEntries(results, i + 1)

\* _handle_news_query.  Evaluating SearchType.NEWS_SEARCH raises
\* AttributeError when the enum has no such member; the except branch turns
\* that, like a failed search, into the "unavailable" text.
handle_news_query(query, news_response) ==
    IF "NEWS_SEARCH" \notin SearchTypeMembers \/ news_response.failed
    THEN NewsUnavailableMessage
    ELSE IF Len(news_response.results) = 0 THEN NoNewsMessage
    ELSE "~~~~ **Latest News on: " \o query \o "**\n\n"
         \o NewsEntries(news_response.results, 1)
         \o "*Search performed in real-time using "
         \o Join(news_response.sources_used, ", ") \o "*\n"
         \o "*Found " \o ToString(Len(news_response.results)) \o " relevant articles*"

(***************************************************************************)
(* Multi-part responses                                                    *)
(***************************************************************************)

PreviewLen == 60

PartSection(i, part, part_response) ==
    "**" \o ToString(i) \o ". Response to: " \o Prefix(part, PreviewLen)
    \o (IF Len(part) > PreviewLen THEN "..." ELSE "") \o "**\n\n" \o part_response

\* faulty variant of PartErrorSection (the error entry carries no number),
\* for C40
PartErrorSection_unnumbered(i, error) == "**Error processing part:** " \o error

PartErrorSection(i, error) ==
    "**" \o ToString(i) \o ". Error processing part:** " \o error

MultiPartHeader == "~~~~ **Comprehensive Multi-Part Analysis**\n\n"

PartSeparator == "\n\n---\n\n"

SummaryNote ==
    "\n\n---\n\n**~~~~ Summary**\n\nI've provided detailed responses to each part of your comprehensive query. Each section addresses specific aspects of AI governance and compliance as requested."

\* faulty variant of combined_response (the summary is left out), for C8
combined_response_no_summary(responses) ==
    MultiPartHeader \o Join(responses, PartSeparator)

combined_response(responses) ==
    MultiPartHeader \o Join(responses, PartSeparator)
    \o (IF Len(responses) > 1 THEN SummaryNote ELSE "")

(***************************************************************************)
(* legal_orchestrator.LegalMindOrchestrator: routing and formatting        *)
(***************************************************************************)

\* the keys of self.agents, in insertion order
LegalAgentOrder == <<POLICY_EXPERT, NEWS_MONITOR, DOCUMENT_ANALYZER, REPORT_GENERATOR>>

specialization ==
    [policy_expert |->
        {"eu ai act", "nist", "gdpr", "policy", "regulation", "compliance", "framework"},
     news_monitor |->
        {"news", "latest", "recent", "current", "update", "development"},
     document_analyzer |->
        {"document", "analyze", "review", "search", "find", "lookup"},
     report_generator |->
        {"report", "generate", "create report", "pdf", "email", "summary"}]

LegalAgentName ==
    [policy_expert |-> "Policy Expert", news_monitor |-> "News Monitor",
     document_analyzer |-> "Document Analyzer", report_generator |-> "Report Generator"]

AgentScore(agent_type, query_lower) ==
    Cardinality({k \in specialization[agent_type] : Contains(k, query_lower)})

\* sorted(agent_scores.items(), key=score, reverse=True): a stable sort, so
\* agents of equal score keep their insertion order
SortedAgents(query_lower) ==
    LET Before(i, j) ==
            \/ AgentScore(LegalAgentOrder[i], query_lower)
                 > AgentScore(LegalAgentOrder[j], query_lower)
            \/ /\ AgentScore(LegalAgentOrder[i], query_lower)
                    = AgentScore(LegalAgentOrder[j], query_lower)
               /\ i < j
        Rank(i) == 1 + Cardinality({j \in 1..4 : Before(j, i)})
    IN  [r \in 1..4 |-> LegalAgentOrder[CHOOSE i \in 1..4 : Rank(i) = r]]

classify_query_type(query) ==
    IF AnyIn({"news", "latest", "recent", "current"}, query) THEN "news_inquiry"
    ELSE IF AnyIn({"report", "generate", "create", "pdf"}, query) THEN "report_request"
    ELSE IF AnyIn({"search", "find", "lookup", "document"}, query) THEN "document_search"
    ELSE IF AnyIn({"policy", "regulation", "compliance", "act", "framework"}, query)
    THEN "policy_guidance"
    ELSE "general_inquiry"

requires_multi_agent(query) ==
    AnyIn({"comprehensive", "detailed report", "analysis and news",
           "current status", "latest updates on", "full overview"}, query)

route_query(query) ==
    LET query_lower == Lower(query)
        sorted_agents == SortedAgents(query_lower)
    IN  [primary_agent |->
            IF AgentScore(sorted_agents[1], query_lower) > 0
            THEN sorted_agents[1] ELSE POLICY_EXPERT,
         confidence |-> AgentScore(sorted_agents[1], query_lower),
         query_type |-> classify_query_type(query_lower),
         requires_multi_agent |-> requires_multi_agent(query_lower),
         secondary_agents |->
            SelectSeq(<<sorted_agents[2], sorted_agents[3]>>,
                      LAMBDA a : AgentScore(a, query_lower) > 0)]

\* the secondary agents _execute_with_agents calls after the primary
SecondariesToCall(routing_decision) ==
    IF routing_decision.requires_multi_agent
    THEN SubSeq(routing_decision.secondary_agents, 1,
                Min(2, Len(routing_decision.secondary_agents)))
    ELSE <<>>

AgentUnavailableMessage(agent_id) ==
    "~~ Agent " \o agent_id \o " is currently unavailable. Please try again later."

RECURSIVE SecondarySections(_, _)
SecondarySections(secondary_responses, i) ==
    IF i > Len(secondary_responses) THEN ""
    ELSE "## ~~~~ **" \o LegalAgentName[secondary_responses[i].agent_type]
         \o " Insights**\n\n" \o secondary_responses[i].response \o "\n\n"
         \o SecondarySections(secondary_responses, i + 1)

format_response(res) ==
    IF Len(res.secondary_responses) = 0
    THEN IF res.fallback_used
         THEN "~~~~ **Response** (via fallback agent)\n\n" \o res.primary_response
         ELSE res.primary_response
    ELSE "~~~~ **Legal-Mind-AI Multi-Agent Analysis**\n\n"
         \o "## ~~~~ **" \o LegalAgentName[res.primary_agent] \o " Analysis**\n\n"
         \o res.primary_response \o "\n\n"
         \o SecondarySections(res.secondary_responses, 1)
         \o "---\n*Generated by Legal-Mind-AI Multi-Agent System*"

legal_generate_error_response(error) ==
    "~~ **I encountered an issue processing your request**\n\n**Error Details:** "
    \o error
    \o "\n\n**What you can try:**\n~~~ Rephrase your question\n~~~ Ask about specific AI policies (EU AI Act, NIST Framework, GDPR)\n~~~ Use `/help` to see available commands\n~~~ Contact support if the issue persists\n\nI'm here to help with AI governance and policy questions! ~~~~"

(***************************************************************************)
(* State                                                                   *)
(***************************************************************************)

VARIABLES
    entry,              \* "orchestrator": the caller calls orchestrator.process_query;
                        \* "legal": it calls legal_orchestrator.process_query
    request,            \* the QueryContext of the caller
    front,              \* the frame of legal_orchestrator.process_query
    context,            \* the QueryContext of the running orchestrator.process_query
    pc,                 \* where orchestrator.process_query stands
    complexity_analysis,
    query_parts,        \* _process_multi_part_query: the parts, the loop index
    part_i,             \*   and the sections collected so far
    responses,
    required_agents,    \* _execute_agents_with_retry: the agents, the loop index,
    agent_i,            \*   the search context and the AgentResponses collected
    search_context,
    agent_responses,
    composed,           \* the response handed to _format_and_chunk_output
    disp,               \* the frame of _execute_single_agent_with_retry
    result,             \* what orchestrator.process_query returned
    outcome,            \* "running", "returned" or "escaped" (an exception left it)
    obs,                \* observations of the run, read by the properties only
    active_sessions,    \* AgentRegistry.active_sessions: session id -> session
    reg_env,            \* the clock of the registry, the value its last call
                        \* returned and what the properties remember of its calls
    gatherer            \* one asyncio.gather of _gather_search_context: the lookup
                        \* tasks, their result slots, and the cache and the rate
                        \* limit table of the SearchService they run on

runVars == <<context, pc, complexity_analysis, query_parts, part_i, responses,
             required_agents, agent_i, search_context, agent_responses, composed>>

vars == <<entry, request, front, context, pc, complexity_analysis, query_parts,
          part_i, responses, required_agents, agent_i, search_context,
          agent_responses, composed, disp, result, outcome, obs,
          active_sessions, reg_env, gatherer>>

regVars == <<active_sessions, reg_env, gatherer>>

(***************************************************************************)
(* Inputs: the queries and contexts of the callers, and what the backend   *)
(* and the search services may answer                                      *)
(***************************************************************************)

\* QueryContext.max_response_length (line 43)
DefaultMaxResponseLength == 4000

\* a max_response_length of a caller that the short answer with its
\* delivery notice exceeds
SmallMaxResponseLength == 40

Ctx(query, output_format, enable_chunking, max_response_length) ==
    [query |-> query, output_format |-> output_format,
     enable_chunking |-> enable_chunking,
     max_response_length |-> max_response_length]

QHello == "Hello"

QHelp == "What can you do?"

QThanks == " Thanks "

QSimple == "Explain GDPR"

QReport == "quarterly report"

QNewsReport == "latest compliance report"

QCompound ==
    "What are the EU AI Act requirements and what does GDPR say about biometric data?"

QLongCompound ==
    "For banks, insurers, brokers, which duties of the EU AI Act apply to credit scoring and which are optional?"

QUpperAnd == "Is it high risk AND is it banned?"

\* a compound question (complex path) that holds a report keyword
QReportAnd == "Is the report final AND is it banned?"

Requests ==
    {Ctx(QHello, "text", TRUE, DefaultMaxResponseLength),
     Ctx(QHelp, "text", TRUE, DefaultMaxResponseLength),
     Ctx(QThanks, "text", TRUE, DefaultMaxResponseLength),
     Ctx(QSimple, "email", TRUE, SmallMaxResponseLength),
     Ctx(QReport, "text", TRUE, DefaultMaxResponseLength),
     Ctx(QNewsReport, "text", TRUE, DefaultMaxResponseLength),
     Ctx(QCompound, "pdf", TRUE, DefaultMaxResponseLength),
     Ctx(QLongCompound, "text", TRUE, DefaultMaxResponseLength),
     Ctx(QUpperAnd, "text", TRUE, DefaultMaxResponseLength),
     Ctx(QReportAnd, "text", TRUE, DefaultMaxResponseLength)}

\* the queries sent through the legal_orchestrator front end
QStatus == "current status of AI policy AND news?"

QHelpStatus == "help with the current status of policy news report"

LegalRequests ==
    {Ctx(QUpperAnd, "text", TRUE, DefaultMaxResponseLength),
     Ctx(QStatus, "text", TRUE, DefaultMaxResponseLength),
     Ctx(QHelpStatus, "text", TRUE, DefaultMaxResponseLength)}

\* queries asking for the latest news
QLatestNews == "latest news on AI regulation"

QLatestNewsEU == "What is the latest news on AI regulation in the EU?"

NewsRequests ==
    {Ctx(QLatestNews, "text", TRUE, DefaultMaxResponseLength),
     Ctx(QLatestNewsEU, "text", TRUE, DefaultMaxResponseLength)}

\* a query of score 6 (compound question, more than two commas) that
\* split(' and ') leaves in one part: it takes the single enhanced dispatch of
\* the complex path with requires_chunking set
QChunk == "Is it high risk, banned, or limited, AND is it final?"

\* values of QueryContext.max_response_length small enough for the texts below
ChunkMaxLengths == {120, 150}

RECURSIVE Rep(_, _)
\* the string s * n of Python
Rep(s, n) ==
    IF n <= 0 THEN ""
    ELSE IF n = 1 THEN s
    ELSE Rep(s, n \div 2) \o Rep(s, n - n \div 2)

\* texts of the last assistant message of a completed run, of several shapes:
\* short, two paragraphs, a short and an over-long paragraph, one over-long
\* sentence, three sentences, an over-long sentence followed by a short one
ChunkTexts ==
    {"ok",
     Rep("a", 100) \o "\n\n" \o Rep("b", 100),
     Rep("a", 10) \o "\n\n" \o Rep("b", 130),
     Rep("a", 200),
     Rep("a", 60) \o ". " \o Rep("b", 60) \o ". " \o Rep("c", 60),
     Rep("a", 160) \o ". " \o Rep("b", 30),
     Rep("a", 50) \o "\n\n" \o Rep("b", 50) \o "\n\n" \o Rep("c", 50)}

\* the contexts of the runs whose composed response is formatted and chunked
ChunkRequests ==
    {Ctx(q, f, e, m) : q \in {QChunk, QUpperAnd}, f \in {"text", "pdf"},
                       e \in BOOLEAN, m \in ChunkMaxLengths}

\* texts of the last assistant message of a completed run
ShortAnswer == "The EU AI Act applies."

BackendTexts == {ShortAnswer}

\* messages of the exceptions the backend client raises from threads.create,
\* messages.create and runs.create_and_process
CreateErrors == {"rate_limit_exceeded: Try again in 7 seconds.", "Request timeout"}

\* rate limit messages of the backend with a wait of one second, of just
\* under a minute, of a minute and of two minutes
HintedErrors ==
    {"rate_limit_exceeded: Try again in 1 second.",
     "rate_limit_exceeded: Try again in 59 seconds.",
     "rate_limit_exceeded: Try again in 60 seconds.",
     "Rate limit is exceeded (rate_limit_exceeded). Try again in 120 seconds."}

\* run.last_error of a run that ended FAILED
LastErrors == {"Rate_Limit_Exceeded", "server_error"}

\* messages of the exceptions messages.list raises
ListErrors ==
    {"connection reset", "Object of type datetime is not JSON serializable"}

\* RunStatus values a run is seen in; every status other than COMPLETED and
\* FAILED (queued, in_progress, cancelled, expired, ...) keeps the loop polling
RunStatuses == {"in_progress", "completed", "failed"}

\* what one search lookup does: raise, return no result, return one result
SearchOutcomes == {"error", "empty", "hit"}

LegalHit ==
    [title |-> "EU AI Act", content |-> "Regulation (EU) 2024/1689",
     source |-> "Legal Corpus", url |-> ""]

WebHit ==
    [title |-> "AI Act explained", content |-> "An overview of the AI Act",
     source |-> "Web Search", url |-> "https://example.org/ai-act"]

NoDisp ==
    [site |-> "none", agent_id |-> "", query |-> "", attempt |-> 0,
     phase |-> "none", invocations |-> 0, wait |-> 0, sleeps |-> <<>>,
     elapsed_time |-> 0, status |-> "none", error |-> "", text |-> ""]

NoAnalysis == analyze_complexity("")

NoFront ==
    [stage |-> "none", routing |-> route_query(""), sec_i |-> 0,
     primary_response |-> "", secondary_responses |-> <<>>, result |-> ""]

\* no gather is running
NoGatherer ==
    [phase |-> "none", tasks |-> <<>>, at |-> <<>>, search_responses |-> <<>>,
     cache |-> [x \in {} |-> 0], last_requests |-> [azure |-> 0, bing |-> 0],
     writes |-> {}]

\* the empty dict of AgentRegistry.__init__
NoSessions == [x \in {} |-> 0]

NoSession ==
    [agent_type |-> "", user_context |-> "", created_at |-> 0, last_activity |-> 0]

NoReturn == [op |-> "none", session_id |-> "", found |-> FALSE, session |-> NoSession,
             removed |-> 0]

NoRegEnv ==
    [utcnow |-> 0, returned |-> NoReturn, registered |-> NoSessions, removed |-> {}]

NoObs ==
    [stages |-> <<>>, analysis_calls |-> 0, format_calls |-> 0,
     log |-> <<>>, in_flight |-> 0, dispatches |-> 0, searches |-> 0,
     lookups |-> <<>>, last_sleep |-> 0, final_error |-> "", returns |-> 0]

NoContext == Ctx("", "text", TRUE, DefaultMaxResponseLength)

NoSearchContext == [results |-> <<>>, sources |-> <<>>]

\* the messages of the exceptions _execute_single_agent raises
TimeoutError == "Agent execution timed out after " \o ToString(max_wait_time) \o " seconds"

RunFailedError(last_error) == "Agent run failed: " \o last_error

RetrieveError(e) == "Failed to retrieve agent response: " \o e

NoResponseText == "No response generated"

\* the message texts of the exceptions a backend call raises
ExceptionTexts ==
    CreateErrors \cup {RunFailedError(le) : le \in LastErrors}
                 \cup {RetrieveError(e) : e \in ListErrors}
                 \cup {TimeoutError}

\* the queries of the runs
Queries ==
    {r.query : r \in Requests \cup LegalRequests \cup ChunkRequests \cup NewsRequests}

\* The values of the pure functions on the inputs of the runs, each computed
\* once by the function itself

\* _handle_basic_queries on each query
basic_response == [q \in Queries |-> handle_basic_queries(q)]

\* the queries the basic check answers
BasicQueries == {q \in Queries : basic_response[q] # ""}

\* QueryComplexityAnalyzer.analyze_complexity on each query
AnalysisOf == [q \in Queries |-> analyze_complexity(q)]

\* _break_down_complex_query on each query
PartsOf == [q \in Queries |-> break_down_complex_query(q)]

\* _analyze_query_requirements on each query
RequiredAgentsOf == [q \in Queries |-> analyze_query_requirements(q)]

\* _route_query on each query
RoutingOf == [q \in Queries |-> route_query(q)]

\* the except block of the retry loop on each exception and attempt
RetryDecisionOf ==
    [e \in ExceptionTexts \cup HintedErrors, attempt \in 0..max_retries |->
        RetryDecision(e, attempt)]

\* the errors a dispatch raises out of the retry loop
DispatchErrors == ExceptionTexts \cup {"Max retries exceeded"}

\* _generate_error_response on each error a dispatch raises
ErrorResponseOf == [e \in DispatchErrors |-> generate_error_response(e)]

(***************************************************************************)
(* Initial state: a caller has built its QueryContext and is about to call *)
(* process_query of one of the two orchestrators                           *)
(***************************************************************************)

Init ==
    /\ gatherer = NoGatherer
    /\ active_sessions = NoSessions
    /\ reg_env = NoRegEnv
    /\ \/ entry = "orchestrator" /\ request \in Requests
       \/ entry = "legal" /\ request \in LegalRequests
    /\ front = IF entry = "legal" THEN [NoFront EXCEPT !.stage = "start"] ELSE NoFront
    /\ context = IF entry = "orchestrator" THEN request ELSE NoContext
    /\ pc = IF entry = "orchestrator" THEN "RECEIVED" ELSE "idle"
    /\ complexity_analysis = NoAnalysis
    /\ query_parts = <<>>
    /\ part_i = 0
    /\ responses = <<>>
    /\ required_agents = <<>>
    /\ agent_i = 0
    /\ search_context = NoSearchContext
    /\ agent_responses = <<>>
    /\ composed = ""
    /\ disp = NoDisp
    /\ result = ""
    /\ outcome = "running"
    /\ obs = NoObs

\* process_query at line 170 of a run that took the single enhanced dispatch
\* of the complex path: the analysis is done, the backend has answered and
\* its text is the response to format and chunk
ChunkInit ==
    /\ gatherer = NoGatherer
    /\ active_sessions = NoSessions
    /\ reg_env = NoRegEnv
    /\ entry = "orchestrator"
    /\ request \in ChunkRequests
    /\ front = NoFront
    /\ context = request
    /\ pc = "FORMAT_AND_CHUNK"
    /\ complexity_analysis = AnalysisOf[request.query]
    /\ query_parts = PartsOf[request.query]
    /\ part_i = 0
    /\ responses = <<>>
    /\ required_agents = <<>>
    /\ agent_i = 0
    /\ search_context = NoSearchContext
    /\ agent_responses = <<>>
    /\ composed \in ChunkTexts
    /\ disp = NoDisp
    /\ result = ""
    /\ outcome = "running"
    /\ obs = [NoObs EXCEPT !.stages = <<"BASIC_CHECK", "COMPLEXITY_ANALYSIS",
                                        "COMPLEX_PATH">>,
                           !.analysis_calls = 1, !.dispatches = 1]

(***************************************************************************)
(* orchestrator.process_query                                              *)
(***************************************************************************)

Stage(name) == [obs EXCEPT !.stages = Append(@, name)]

\* process_query returns text to its caller
Return(text, o) ==
    /\ result' = text
    /\ outcome' = "returned"
    /\ obs' = [o EXCEPT !.returns = @ + 1]

\* faulty variant of ProcessQueryOnError (no except clause: the exception
\* leaves process_query), for C1
ProcessQueryOnError_uncaught(error, o) ==
    /\ pc' = "ERROR"
    /\ result' = result
    /\ outcome' = "escaped"
    /\ obs' = [o EXCEPT !.stages = Append(@, "ERROR"), !.final_error = error]

\* what process_query does with an exception raised inside its try block:
\* the except clause turns it into the categorized message and returns it
ProcessQueryOnError(error, o) ==
    /\ pc' = "ERROR"
    /\ Return(ErrorResponseOf[error],
              [o EXCEPT !.stages = Append(@, "ERROR"), !.final_error = error])

\* faulty variant of BasicCheck (the canned response is not returned), for C4
BasicCheck_no_short_circuit ==
    /\ UNCHANGED regVars
    /\ pc = "RECEIVED"
    /\ pc' = "COMPLEXITY_ANALYSIS"
    /\ obs' = Stage("BASIC_CHECK")
    /\ UNCHANGED <<entry, request, front, context, complexity_analysis, query_parts,
                   part_i, responses, required_agents, agent_i, search_context,
                   agent_responses, composed, disp, result, outcome>>

\* lines 146-150: the basic check; a canned response is returned at once
BasicCheck ==
    /\ UNCHANGED regVars
    /\ pc = "RECEIVED"
    /\ IF basic_response[context.query] # ""
       THEN /\ pc' = "DONE"
            /\ Return(basic_response[context.query],
                      [obs EXCEPT !.stages = @ \o <<"BASIC_CHECK", "DONE">>])
       ELSE /\ pc' = "COMPLEXITY_ANALYSIS"
            /\ obs' = Stage("BASIC_CHECK")
            /\ UNCHANGED <<result, outcome>>
    /\ UNCHANGED <<entry, request, front, context, complexity_analysis, query_parts,
                   part_i, responses, required_agents, agent_i, search_context,
                   agent_responses, composed, disp>>

\* faulty variant of PathFor (the complex path is never taken), for C3
PathFor_always_standard(analysis) == "STANDARD_PATH"

\* faulty variant of PathFor (the complex path is taken from the score that
\* sets requires_chunking), for C39
PathFor_from_requires_chunking(analysis) ==
    IF analysis.requires_chunking THEN "COMPLEX_PATH" ELSE "STANDARD_PATH"

\* the path process_query takes after the analysis (line 157)
PathFor(analysis) ==
    IF analysis.requires_specialized_processing THEN "COMPLEX_PATH" ELSE "STANDARD_PATH"

\* lines 152-158: the complexity analysis and the choice of the path
ComplexityAnalysis ==
    /\ UNCHANGED regVars
    /\ pc = "COMPLEXITY_ANALYSIS"
    /\ complexity_analysis' = AnalysisOf[context.query]
    /\ pc' = PathFor(complexity_analysis')
    /\ obs' = [obs EXCEPT !.stages = Append(@, "COMPLEXITY_ANALYSIS"),
                          !.analysis_calls = @ + 1]
    /\ UNCHANGED <<entry, request, front, context, query_parts, part_i, responses,
                   required_agents, agent_i, search_context, agent_responses,
                   composed, disp, result, outcome>>

\* _execute_single_agent_with_retry is called: attempt 0 is about to start
StartDispatch(site, agent_id, query, o) ==
    /\ disp' = [NoDisp EXCEPT !.site = site, !.agent_id = agent_id,
                              !.query = query, !.phase = "attempt"]
    /\ obs' = [o EXCEPT !.in_flight = @ + 1, !.dispatches = @ + 1,
                        !.last_sleep = 0,
                        !.log = Append(@, [ev |-> "start", site |-> site,
                                           agent_id |-> agent_id])]

\* faulty variant of EndDispatch (the call is not awaited to its end), for C6
EndDispatch_not_awaited(ev, o) ==
    [o EXCEPT !.log = Append(@, [ev |-> ev, site |-> disp.site,
                                 agent_id |-> disp.agent_id])]

\* the call has returned or raised: nothing of it is in flight any more
EndDispatch(ev, o) ==
    [o EXCEPT !.in_flight = @ - 1,
              !.log = Append(@, [ev |-> ev, site |-> disp.site,
                                 agent_id |-> disp.agent_id])]

\* _process_complex_query, lines 182-192: decompose; several parts go to the
\* multi-part loop, a single part is dispatched with the enhanced prompt
ProcessComplexQuery ==
    /\ UNCHANGED regVars
    /\ pc = "COMPLEX_PATH"
    /\ query_parts' = PartsOf[context.query]
    /\ IF Len(query_parts') > 1
       THEN /\ pc' = "part_loop"
            /\ part_i' = 1
            /\ responses' = <<>>
            /\ obs' = Stage("COMPLEX_PATH")
            /\ UNCHANGED disp
       ELSE /\ pc' = "dispatch"
            /\ StartDispatch("single", main_agent_id,
                             create_enhanced_complex_prompt(context.query),
                             Stage("COMPLEX_PATH"))
            /\ UNCHANGED <<part_i, responses>>
    /\ UNCHANGED <<entry, request, front, context, complexity_analysis,
                   required_agents, agent_i, search_context, agent_responses,
                   composed, result, outcome>>

\* lines 260-266: the context built for one part; the parent is only read
part_context(parent, part) ==
    Ctx(part, parent.output_format, FALSE, DefaultMaxResponseLength)

\* _process_multi_part_query, lines 255-272: the next part is dispatched
StartPart ==
    /\ UNCHANGED regVars
    /\ pc = "part_loop"
    /\ part_i <= Len(query_parts)
    /\ pc' = "dispatch"
    /\ StartDispatch("part", main_agent_id,
                     create_focused_prompt(query_parts[part_i], part_i,
                                           Len(query_parts)), obs)
    /\ UNCHANGED <<entry, request, front, context, complexity_analysis, query_parts,
                   part_i, responses, required_agents, agent_i, search_context,
                   agent_responses, composed, result, outcome>>

(***************************************************************************)
(* _execute_single_agent_with_retry and _execute_single_agent              *)
(***************************************************************************)

\* faulty variant of KeepPolling (the loop goes on while the time is not yet
\* exceeded), for C16
KeepPolling_inclusive(status, elapsed_time) ==
    status \notin {"completed", "failed"} /\ elapsed_time <= max_wait_time

\* the loop condition of the polling loop (line 742)
KeepPolling(status, elapsed_time) ==
    status \notin {"completed", "failed"} /\ elapsed_time < max_wait_time

\* the loop "for attempt in range(self.max_retries + 1)" has an attempt left
\* to run
HasAttempt(attempt) == attempt < max_retries + 1

\* _execute_single_agent has raised: its locals are gone
Raised(error) ==
    [disp EXCEPT !.phase = "failed", !.error = error, !.status = "none",
                 !.elapsed_time = 0]

\* _execute_single_agent has returned: its locals are gone
Returned(text) ==
    [disp EXCEPT !.phase = "succeeded", !.text = text, !.status = "none",
                 !.elapsed_time = 0]

\* one attempt begins (line 515): _execute_single_agent creates the thread,
\* posts the message and starts the run; one of the three calls raises, or
\* the run is created in some status
ExecuteSingleAgent ==
    /\ UNCHANGED regVars
    /\ pc = "dispatch"
    /\ disp.phase = "attempt"
    /\ HasAttempt(disp.attempt)
    /\ \/ \E e \in CreateErrors :
            disp' = [disp EXCEPT !.phase = "failed", !.error = e, !.wait = 0,
                                 !.invocations = @ + 1]
       \/ \E st \in RunStatuses :
            disp' = [disp EXCEPT !.phase = "polling", !.status = st,
                                 !.elapsed_time = 0, !.wait = 0,
                                 !.invocations = @ + 1]
    /\ UNCHANGED <<entry, request, front, runVars, result, outcome, obs>>

\* one round of the polling loop (lines 742-752): sleep, then runs.get, which
\* returns the run in some status or raises; the exception is logged, and
\* raised as a timeout once the time is up
PollOnce ==
    /\ UNCHANGED regVars
    /\ pc = "dispatch"
    /\ disp.phase = "polling"
    /\ KeepPolling(disp.status, disp.elapsed_time)
    /\ \/ \E st \in RunStatuses :
            disp' = [disp EXCEPT !.status = st,
                                 !.elapsed_time = @ + poll_interval]
       \/ IF disp.elapsed_time + poll_interval >= max_wait_time
          THEN disp' = Raised(TimeoutError)
          ELSE disp' = [disp EXCEPT !.elapsed_time = @ + poll_interval]
    /\ UNCHANGED <<entry, request, front, runVars, result, outcome, obs>>

\* after the loop (lines 754-774): the timeout, the failed run, or the reply
AfterPolling ==
    /\ UNCHANGED regVars
    /\ pc = "dispatch"
    /\ disp.phase = "polling"
    /\ ~KeepPolling(disp.status, disp.elapsed_time)
    /\ IF disp.elapsed_time >= max_wait_time
       THEN disp' = Raised(TimeoutError)
       ELSE IF disp.status = "failed"
       THEN \E le \in LastErrors : disp' = Raised(RunFailedError(le))
       ELSE \/ \E t \in BackendTexts : disp' = Returned(t)
            \/ disp' = Returned(NoResponseText)
            \/ \E e \in ListErrors : disp' = Raised(RetrieveError(e))
    /\ UNCHANGED <<entry, request, front, runVars, result, outcome, obs>>

\* the sleep of the except block: which branch slept, whether the wait came
\* out of the error text, and for how long
Slept(d) == [branch |-> d.branch, hinted |-> d.hinted, wait |-> d.wait]

\* faulty variant of AfterFailedAttempt (the handler retries by calling the
\* dispatcher afresh, so the attempts start again from 0), for C5
AfterFailedAttempt_restart ==
    /\ UNCHANGED regVars
    /\ pc = "dispatch"
    /\ disp.phase = "failed"
    /\ disp' = [disp EXCEPT !.phase = "attempt", !.attempt = 0, !.invocations = 0,
                            !.error = "", !.sleeps = <<>>,
                            !.wait = RetryDecisionOf[disp.error, 0].wait]
    /\ UNCHANGED <<entry, request, front, runVars, result, outcome, obs>>

\* the except block of one attempt (lines 517-547): raise the error out of
\* the dispatch, or sleep and go round the loop; the loop that has run out of
\* attempts falls through to line 549
AfterFailedAttempt ==
    /\ UNCHANGED regVars
    /\ pc = "dispatch"
    /\ disp.phase = "failed"
    /\ LET d == RetryDecisionOf[disp.error, disp.attempt]
       IN  IF ~d.retry
           THEN disp' = [disp EXCEPT !.phase = "raised"]
           ELSE IF HasAttempt(disp.attempt + 1)
           THEN disp' = [disp EXCEPT !.phase = "attempt", !.attempt = @ + 1,
                                     !.wait = d.wait, !.sleeps = Append(@, Slept(d)),
                                     !.error = ""]
           ELSE disp' = [disp EXCEPT !.phase = "raised", !.wait = d.wait,
                                     !.sleeps = Append(@, Slept(d)),
                                     !.error = "Max retries exceeded"]
    /\ UNCHANGED <<entry, request, front, runVars, result, outcome, obs>>

(***************************************************************************)
(* The call sites of the dispatch                                          *)
(***************************************************************************)

\* _process_complex_query, lines 191-196: the single enhanced dispatch
\* returned, or raised into the except clause of _process_complex_query
SingleDispatchDone ==
    /\ UNCHANGED regVars
    /\ pc = "dispatch"
    /\ disp.site = "single"
    /\ disp.phase \in {"succeeded", "raised"}
    /\ IF disp.phase = "succeeded"
       THEN /\ pc' = "FORMAT_AND_CHUNK"
            /\ composed' = disp.text
            /\ obs' = EndDispatch("ok", obs)
            /\ UNCHANGED <<result, outcome>>
       ELSE /\ ProcessQueryOnError(disp.error, EndDispatch("fail", obs))
            /\ UNCHANGED composed
    /\ disp' = NoDisp
    /\ UNCHANGED <<entry, request, front, context, complexity_analysis, query_parts,
                   part_i, responses, required_agents, agent_i, search_context,
                   agent_responses>>

\* _process_multi_part_query, lines 274-282: the part's section is appended,
\* followed by the pacing sleep when the dispatch returned and parts remain
PartDispatchDone ==
    /\ UNCHANGED regVars
    /\ pc = "dispatch"
    /\ disp.site = "part"
    /\ disp.phase \in {"succeeded", "raised"}
    /\ IF disp.phase = "succeeded"
       THEN /\ responses' = Append(responses,
                   PartSection(part_i, query_parts[part_i], disp.text))
            /\ obs' = [EndDispatch("ok", obs) EXCEPT
                          !.last_sleep = IF part_i < Len(query_parts)
                                         THEN InterPartDelay ELSE 0]
       ELSE /\ responses' = Append(responses, PartErrorSection(part_i, disp.error))
            /\ obs' = EndDispatch("fail", obs)
    /\ part_i' = part_i + 1
    /\ pc' = "part_loop"
    /\ disp' = NoDisp
    /\ UNCHANGED <<entry, request, front, context, complexity_analysis, query_parts,
                   required_agents, agent_i, search_context, agent_responses,
                   composed, result, outcome>>

\* lines 285-291: all parts are done; the sections are combined
CombineParts ==
    /\ UNCHANGED regVars
    /\ pc = "part_loop"
    /\ part_i > Len(query_parts)
    /\ composed' = combined_response(responses)
    /\ pc' = "FORMAT_AND_CHUNK"
    /\ UNCHANGED <<entry, request, front, context, complexity_analysis, query_parts,
                   part_i, responses, required_agents, agent_i, search_context,
                   agent_responses, disp, result, outcome, obs>>

\* _format_and_chunk_output and the return of its value (lines 170-172, 192, 291)
FormatAndChunk ==
    /\ UNCHANGED regVars
    /\ pc = "FORMAT_AND_CHUNK"
    /\ pc' = "DONE"
    /\ Return(format_and_chunk_output(context, composed, complexity_analysis),
              [obs EXCEPT !.stages = @ \o <<"FORMAT_AND_CHUNK", "DONE">>,
                          !.format_calls = @ + 1])
    /\ UNCHANGED <<entry, request, front, context, complexity_analysis, query_parts,
                   part_i, responses, required_agents, agent_i, search_context,
                   agent_responses, composed, disp>>

(***************************************************************************)
(* The standard path: _analyze_query_requirements,                         *)
(* _execute_agents_with_retry, _synthesize_responses                       *)
(***************************************************************************)

\* line 161: the required agents; a report query switches the output to pdf
AnalyzeQueryRequirements ==
    /\ UNCHANGED regVars
    /\ pc = "STANDARD_PATH"
    /\ required_agents' = RequiredAgentsOf[context.query]
    /\ context' = [context EXCEPT !.output_format = RequirementsOutputFormat(context)]
    /\ pc' = "gather"
    /\ obs' = Stage("STANDARD_PATH")
    /\ UNCHANGED <<entry, request, front, complexity_analysis, query_parts, part_i,
                   responses, agent_i, search_context, agent_responses, composed,
                   disp, result, outcome>>

InSeq(x, seq) == \E i \in 1..Len(seq) : seq[i] = x

\* the lookups _gather_search_context issues, in order
SearchTasks(agent_types) ==
    (IF InSeq(POLICY_EXPERT, agent_types) \/ InSeq(DOCUMENT_ANALYZER, agent_types)
     THEN <<"LEGAL_CORPUS">> ELSE <<>>)
    \o (IF ~InSeq(NEWS_MONITOR, agent_types) THEN <<"WEB_SEARCH">> ELSE <<>>)

\* the results and the sources one settled lookup contributes
LookupResults(search_type, out) ==
    IF out # "hit" THEN <<>>
    ELSE IF search_type = "LEGAL_CORPUS" THEN <<LegalHit>> ELSE <<WebHit>>

LookupSources_failed_kept(search_type, out) ==
    IF search_type = "LEGAL_CORPUS" THEN {"Azure AI Search"}
    ELSE {"Bing Web Search"}

LookupSources(search_type, out) ==
    IF out = "error" THEN {}
    ELSE IF search_type = "LEGAL_CORPUS" THEN {"Azure AI Search"}
    ELSE {"Bing Web Search"}

RECURSIVE GatherResults(_, _, _)
GatherResults(tasks, outs, i) ==
    IF i > Len(tasks) THEN <<>>
    ELSE LookupResults(tasks[i], outs[i]) \o GatherResults(tasks, outs, i + 1)

\* the orders list(set(sources)) may come out in
Orderings(set) ==
    {seq \in [1..Cardinality(set) -> set] :
        \A i, j \in 1..Cardinality(set) : i # j => seq[i] # seq[j]}

\* lines 331-334, _gather_search_context: the lookups run together and each
\* settles on its own; a lookup that raised contributes nothing
GatherSearchContext ==
    /\ UNCHANGED regVars
    /\ pc = "gather"
    /\ LET tasks == SearchTasks(required_agents)
       IN  \E outs \in [1..Len(tasks) -> SearchOutcomes] :
           \E sources \in Orderings(UNION {LookupSources(tasks[i], outs[i]) :
                                             i \in 1..Len(tasks)}) :
              /\ search_context' = [results |-> GatherResults(tasks, outs, 1),
                                    sources |-> sources]
              /\ obs' = [obs EXCEPT !.searches = @ + Len(tasks),
                                     !.lookups = [i \in 1..Len(tasks) |->
                                         [search_type |-> tasks[i], out |-> outs[i]]]]
    /\ agent_i' = 1
    /\ agent_responses' = <<>>
    /\ pc' = "agent_loop"
    /\ UNCHANGED <<entry, request, front, context, complexity_analysis, query_parts,
                   part_i, responses, required_agents, composed, disp, result,
                   outcome>>

NewsHit1 ==
    [title |-> "AI Act enters into force", content |-> "The AI Act is now in force.",
     source |-> "Bing News", url |-> "https://example.org/news/1"]

NewsHit2 ==
    [title |-> "NIST updates its AI framework", content |-> "NIST has published an update.",
     source |-> "News API", url |-> ""]

\* what the news search returns when it is reached
NewsResponses ==
    {[failed |-> TRUE, results |-> <<>>, sources_used |-> <<>>],
     [failed |-> FALSE, results |-> <<>>, sources_used |-> <<"Bing News", "News APIs">>],
     [failed |-> FALSE, results |-> <<NewsHit1, NewsHit2>>,
      sources_used |-> <<"Bing News", "News APIs">>]}

AgentResponse(agent_type, content) == [agent_type |-> agent_type, content |-> content]

\* lines 336-355: the next required agent; the news monitor is answered by
\* _handle_news_query, every other agent by a dispatch
NextAgent ==
    /\ UNCHANGED regVars
    /\ pc = "agent_loop"
    /\ agent_i <= Len(required_agents)
    /\ IF required_agents[agent_i] = NEWS_MONITOR
       THEN /\ \E nr \in NewsResponses :
                 agent_responses' = Append(agent_responses,
                     AgentResponse(NEWS_MONITOR, handle_news_query(context.query, nr)))
            /\ agent_i' = agent_i + 1
            /\ obs' = [obs EXCEPT !.searches =
                          IF "NEWS_SEARCH" \in SearchTypeMembers THEN @ + 1 ELSE @]
            /\ UNCHANGED <<pc, disp>>
       ELSE /\ pc' = "dispatch"
            /\ StartDispatch("agent", AgentIdFor(required_agents[agent_i]),
                   create_search_enhanced_prompt(context.query,
                       required_agents[agent_i], search_context), obs)
            /\ UNCHANGED <<agent_i, agent_responses>>
    /\ UNCHANGED <<entry, request, front, context, complexity_analysis, query_parts,
                   part_i, responses, required_agents, search_context, composed,
                   result, outcome>>

\* lines 355-371: the agent's response is collected; a failed agent is logged
\* and the loop goes on with the next agent
AgentDispatchDone ==
    /\ UNCHANGED regVars
    /\ pc = "dispatch"
    /\ disp.site = "agent"
    /\ disp.phase \in {"succeeded", "raised"}
    /\ IF disp.phase = "succeeded"
       THEN /\ agent_responses' = Append(agent_responses,
                   AgentResponse(required_agents[agent_i], disp.text))
            /\ obs' = EndDispatch("ok", obs)
       ELSE /\ agent_responses' = agent_responses
            /\ obs' = EndDispatch("fail", obs)
    /\ agent_i' = agent_i + 1
    /\ pc' = "agent_loop"
    /\ disp' = NoDisp
    /\ UNCHANGED <<entry, request, front, context, complexity_analysis, query_parts,
                   part_i, responses, required_agents, search_context, composed,
                   result, outcome>>

\* _execute_agents_with_retry has returned the responses (line 373; the
\* search context was its local); _synthesize_responses (lines 832-856)
\* returns the only response as it is, and sends any other number of
\* responses to the main agent for synthesis
SynthesizeResponses ==
    /\ UNCHANGED regVars
    /\ pc = "agent_loop"
    /\ agent_i > Len(required_agents)
    /\ IF Len(agent_responses) = 1
       THEN /\ composed' = agent_responses[1].content
            /\ pc' = "FORMAT_AND_CHUNK"
            /\ obs' = [obs EXCEPT !.lookups = <<>>]
            /\ UNCHANGED disp
       ELSE /\ pc' = "dispatch"
            /\ StartDispatch("synthesis", main_agent_id,
                             synthesis_prompt(context.query, agent_responses),
                             [obs EXCEPT !.lookups = <<>>])
            /\ UNCHANGED composed
    /\ search_context' = NoSearchContext
    /\ UNCHANGED <<entry, request, front, context, complexity_analysis, query_parts,
                   part_i, responses, required_agents, agent_i, agent_responses,
                   result, outcome>>

\* lines 167-176: the synthesis returned, or raised into the except clause
\* of process_query
SynthesisDispatchDone ==
    /\ UNCHANGED regVars
    /\ pc = "dispatch"
    /\ disp.site = "synthesis"
    /\ disp.phase \in {"succeeded", "raised"}
    /\ IF disp.phase = "succeeded"
       THEN /\ pc' = "FORMAT_AND_CHUNK"
            /\ composed' = disp.text
            /\ obs' = EndDispatch("ok", obs)
            /\ UNCHANGED <<result, outcome>>
       ELSE /\ ProcessQueryOnError(disp.error, EndDispatch("fail", obs))
            /\ UNCHANGED composed
    /\ disp' = NoDisp
    /\ UNCHANGED <<entry, request, front, context, complexity_analysis, query_parts,
                   part_i, responses, required_agents, agent_i, search_context,
                   agent_responses>>

(***************************************************************************)
(* legal_orchestrator.process_query: one call of orchestrator.process_query *)
(* per selected agent (_call_agent_by_id), primary first                   *)
(***************************************************************************)

Terminated == pc \in {"DONE", "ERROR"} \/ outcome = "escaped"

\* _call_agent_by_id, lines 277-285: a temporary QueryContext with the
\* defaults of the dataclass, handed to orchestrator.process_query
TempContext(c) ==
    Ctx(c.query, c.output_format, TRUE, DefaultMaxResponseLength)

\* the state in which the called process_query starts
CallAgent(role, agent_type) ==
    /\ context' = TempContext(request)
    /\ pc' = "RECEIVED"
    /\ complexity_analysis' = NoAnalysis
    /\ query_parts' = <<>>
    /\ part_i' = 0
    /\ responses' = <<>>
    /\ required_agents' = <<>>
    /\ agent_i' = 0
    /\ search_context' = NoSearchContext
    /\ agent_responses' = <<>>
    /\ composed' = ""
    /\ disp' = NoDisp
    /\ result' = ""
    /\ outcome' = "running"
    /\ obs' = [obs EXCEPT !.stages = <<>>, !.analysis_calls = 0, !.format_calls = 0,
                          !.returns = 0, !.final_error = "",
                          !.log = Append(@, [ev |-> "call", site |-> role,
                                             agent_id |-> AgentIdFor(agent_type)])]

\* lines 285-295: the response of the agent call; an exception that left
\* process_query is caught and replaced by the "unavailable" text
CallAgentResponse(agent_type) ==
    IF outcome = "returned" THEN result
    ELSE AgentUnavailableMessage(AgentIdFor(agent_type))

\* lines 145-148, 219-224: the query is routed and the primary agent called
LegalRouteAndCallPrimary ==
    /\ UNCHANGED regVars
    /\ entry = "legal"
    /\ front.stage = "start"
    /\ front' = [front EXCEPT !.stage = "primary",
                              !.routing = RoutingOf[request.query]]
    /\ CallAgent("primary", front'.routing.primary_agent)
    /\ UNCHANGED <<entry, request>>

\* the frame once every selected agent has answered: _format_response
LegalFinish(f) == [f EXCEPT !.stage = "done",
                            !.result = format_response(
                                [primary_response |-> f.primary_response,
                                 primary_agent |-> f.routing.primary_agent,
                                 secondary_responses |-> f.secondary_responses,
                                 fallback_used |-> FALSE])]

\* lines 224-246: the primary agent answered; the secondary agents follow
\* when the routing asks for them, else the response is formatted
LegalPrimaryDone ==
    /\ UNCHANGED regVars
    /\ entry = "legal"
    /\ front.stage = "primary"
    /\ Terminated
    /\ LET f == [front EXCEPT !.primary_response =
                     CallAgentResponse(front.routing.primary_agent)]
           secondaries == SecondariesToCall(front.routing)
       IN  IF Len(secondaries) > 0
           THEN /\ front' = [f EXCEPT !.stage = "secondary", !.sec_i = 1]
                /\ CallAgent("secondary", secondaries[1])
           ELSE /\ front' = LegalFinish(f)
                /\ UNCHANGED <<pc, context, complexity_analysis, query_parts, part_i,
                               responses, required_agents, agent_i, search_context,
                               agent_responses, composed, disp, result, outcome, obs>>
    /\ UNCHANGED <<entry, request>>

\* lines 234-246: a secondary agent answered; the next one is called, or the
\* response is formatted
LegalSecondaryDone ==
    /\ UNCHANGED regVars
    /\ entry = "legal"
    /\ front.stage = "secondary"
    /\ Terminated
    /\ LET secondaries == SecondariesToCall(front.routing)
           f == [front EXCEPT !.secondary_responses = Append(@,
                     [agent_type |-> secondaries[front.sec_i],
                      response |-> CallAgentResponse(secondaries[front.sec_i])])]
       IN  IF front.sec_i < Len(secondaries)
           THEN /\ front' = [f EXCEPT !.sec_i = @ + 1]
                /\ CallAgent("secondary", secondaries[front.sec_i + 1])
           ELSE /\ front' = LegalFinish(f)
                /\ UNCHANGED <<pc, context, complexity_analysis, query_parts, part_i,
                               responses, required_agents, agent_i, search_context,
                               agent_responses, composed, disp, result, outcome, obs>>
    /\ UNCHANGED <<entry, request>>

(***************************************************************************)
(* Specification                                                           *)
(***************************************************************************)

Next ==
    \/ BasicCheck
    \/ ComplexityAnalysis
    \/ ProcessComplexQuery
    \/ StartPart
    \/ ExecuteSingleAgent
    \/ PollOnce
    \/ AfterPolling
    \/ AfterFailedAttempt
    \/ SingleDispatchDone
    \/ PartDispatchDone
    \/ CombineParts
    \/ FormatAndChunk
    \/ AnalyzeQueryRequirements
    \/ GatherSearchContext
    \/ NextAgent
    \/ AgentDispatchDone
    \/ SynthesizeResponses
    \/ SynthesisDispatchDone
    \/ LegalRouteAndCallPrimary
    \/ LegalPrimaryDone
    \/ LegalSecondaryDone

Spec == Init /\ [][Next]_vars

\* the caller has its answer
Done ==
    \/ entry = "orchestrator" /\ Terminated
    \/ entry = "legal" /\ front.stage = "done"

\* every step that can be taken is eventually taken: the event loop runs the
\* coroutine on after each await, and each sleep and backend call returns
FairSpec == Spec /\ WF_vars(Next)

\* the runs that are at FORMAT_AND_CHUNK with a response of any shape
(***************************************************************************)
(* analyze_complexity and _break_down_complex_query on their own            *)
(***************************************************************************)

\* the queries the analyzer starts from
BaseQueries ==
    {"", "Is it banned?", "Is it a, b, c, or d?", "Intro\nIs it banned?",
     " Padded query \n\n next line "}

\* text whose addition to a query can raise a term of the score
Features ==
    {"?", " and b", " AND b", ", c", "\n1. x", "\n- y", "\nWhy?", Rep(" w", 51)}

\* how many times one query is analyzed (once, then once per added feature)
MaxAnalyses == {1, 2, 3, 4}

AnalyzerInit ==
    /\ gatherer = NoGatherer
    /\ active_sessions = NoSessions
    /\ reg_env = NoRegEnv
    /\ entry = "orchestrator"
    /\ \E q \in BaseQueries :
          request = Ctx(q, "text", TRUE, DefaultMaxResponseLength)
    /\ front = NoFront
    /\ context = request
    /\ pc = "analyze"
    /\ complexity_analysis = NoAnalysis
    /\ query_parts = <<>>
    /\ part_i = 0
    /\ responses = <<>>
    /\ required_agents = <<>>
    /\ agent_i = 0
    /\ search_context = NoSearchContext
    /\ agent_responses = <<>>
    /\ composed = ""
    /\ disp = NoDisp
    /\ result = ""
    /\ outcome = "running"
    /\ obs = NoObs

restVars ==
    <<entry, front, part_i, responses, required_agents, agent_i, search_context,
      agent_responses, composed, disp, result, outcome>>

\* analyze_complexity(query)
AnalyzeQuery ==
    /\ UNCHANGED regVars
    /\ pc = "analyze"
    /\ complexity_analysis' = analyze_complexity(context.query)
    /\ obs' = [obs EXCEPT !.analysis_calls = @ + 1]
    /\ pc' = "analyzed"
    /\ UNCHANGED <<request, context, query_parts>>
    /\ UNCHANGED restVars

\* analyze_complexity of the query with one more feature
AddFeature ==
    /\ UNCHANGED regVars
    /\ pc = "analyzed"
    /\ obs.analysis_calls + 1 \in MaxAnalyses
    /\ \E f \in Features :
          /\ request' = [request EXCEPT !.query = @ \o f]
          /\ context' = [context EXCEPT !.query = @ \o f]
          /\ complexity_analysis' = analyze_complexity(context.query \o f)
    /\ obs' = [obs EXCEPT !.analysis_calls = @ + 1]
    /\ UNCHANGED <<pc, query_parts>>
    /\ UNCHANGED restVars

\* _break_down_complex_query(query)
BreakDownQuery ==
    /\ UNCHANGED regVars
    /\ pc = "analyzed"
    /\ query_parts' = break_down_complex_query(context.query)
    /\ pc' = "decomposed"
    /\ UNCHANGED <<request, context, complexity_analysis, obs>>
    /\ UNCHANGED restVars

\* _break_down_complex_query applied to the first part it returned
BreakDownFirstPart ==
    /\ UNCHANGED regVars
    /\ pc = "decomposed"
    /\ context' = [context EXCEPT !.query = query_parts[1]]
    /\ query_parts' = break_down_complex_query(query_parts[1])
    /\ pc' = "redecomposed"
    /\ UNCHANGED <<request, complexity_analysis, obs>>
    /\ UNCHANGED restVars

AnalyzerNext ==
    \/ AnalyzeQuery
    \/ AddFeature
    \/ BreakDownQuery
    \/ BreakDownFirstPart

AnalyzerSpec == AnalyzerInit /\ [][AnalyzerNext]_vars

(***************************************************************************)
(* _gather_search_context, lookup by lookup: asyncio.gather runs the       *)
(* coroutines of SearchService.search on one event loop; a coroutine runs  *)
(* without interruption from one suspension (the network request) to the   *)
(* next                                                                    *)
(***************************************************************************)

\* the agents of the queries whose context is gathered
GatherAgents ==
    {<<POLICY_EXPERT>>, <<POLICY_EXPERT, NEWS_MONITOR>>, <<REPORT_GENERATOR>>}

\* max_results of the lookup (lines 388-396 of orchestrator.py)
MaxResultsOf(search_type) == IF search_type = "LEGAL_CORPUS" THEN 3 ELSE 2

\* the service whose rate limit the lookup counts against
ServiceOf(search_type) == IF search_type = "LEGAL_CORPUS" THEN "azure" ELSE "bing"

\* _rate_limits: requests per window
rate_limits == [azure |-> 10, bing |-> 3]

\* faulty variant of cache_key (the search type and max_results are left
\* out of the key), for C35
cache_key_query_only(search_type, query, max_results) == query

\* cache_key of search: search_type.value, the query and max_results
cache_key(search_type, query, max_results) ==
    Lower(search_type) \o ":" \o query \o ":" \o ToString(max_results)

KeyOf(search_type, query) == cache_key(search_type, query, MaxResultsOf(search_type))

\* what the cache holds when the gather starts: nothing, or an entry under
\* the key of a lookup, still valid or older than _cache_ttl
InitialCaches(query) ==
    {[x \in {} |-> 0]}
    \cup {[k \in {KeyOf(t, query)} |-> [valid |-> v, out |-> "hit"]] :
             t \in {"LEGAL_CORPUS", "WEB_SEARCH"}, v \in BOOLEAN}

\* the result slot of a lookup that has not settled
Unsettled == [settled |-> FALSE, out |-> "none"]

Settled(out) == [settled |-> TRUE, out |-> out]

Write(obj, key, by) == [obj |-> obj, key |-> key, by |-> by]

\* _gather_search_context has built its search_tasks and calls asyncio.gather
GatherInit ==
    /\ gatherer \in
          {[phase |-> "gathering",
            tasks |-> SearchTasks(a),
            at |-> [i \in 1..Len(SearchTasks(a)) |-> "pending"],
            search_responses |-> [i \in 1..Len(SearchTasks(a)) |-> Unsettled],
            cache |-> c,
            last_requests |-> [azure |-> 0, bing |-> b],
            writes |-> {}] :
              a \in GatherAgents, c \in InitialCaches(QSimple),
              b \in {0, rate_limits.bing}}
    /\ active_sessions = NoSessions
    /\ reg_env = NoRegEnv
    /\ entry = "orchestrator"
    /\ request = Ctx(QSimple, "text", TRUE, DefaultMaxResponseLength)
    /\ front = NoFront
    /\ context = request
    /\ pc = "gather"
    /\ complexity_analysis = AnalysisOf[QSimple]
    /\ query_parts = <<>>
    /\ part_i = 0
    /\ responses = <<>>
    /\ \E a \in GatherAgents :
          /\ SearchTasks(a) = gatherer.tasks
          /\ required_agents = a
    /\ agent_i = 0
    /\ search_context = NoSearchContext
    /\ agent_responses = <<>>
    /\ composed = ""
    /\ disp = NoDisp
    /\ result = ""
    /\ outcome = "running"
    /\ obs = [NoObs EXCEPT !.stages = <<"BASIC_CHECK", "COMPLEXITY_ANALYSIS",
                                        "STANDARD_PATH">>,
                           !.analysis_calls = 1]

gatherFrame ==
    <<entry, request, front, context, complexity_analysis, query_parts, part_i,
      responses, required_agents, composed, disp, result, outcome,
      active_sessions, reg_env>>

\* search, lines 226-247, for lookup i, up to its first suspension: the
\* cache is looked up (a valid entry is returned at once, an expired one is
\* deleted), the rate limit of the service is checked and counted, and the
\* request is sent; a lookup over its rate limit returns no result at once
StartLookup(i) ==
    /\ pc = "gather"
    /\ gatherer.phase = "gathering"
    /\ i \in 1..Len(gatherer.tasks)
    /\ gatherer.at[i] = "pending"
    /\ \A j \in 1..(i - 1) : gatherer.at[j] # "pending"
    /\ LET search_type == gatherer.tasks[i]
           key == KeyOf(search_type, context.query)
           service == ServiceOf(search_type)
           cached == key \in DOMAIN gatherer.cache
       IN  IF cached /\ gatherer.cache[key].valid
           THEN gatherer' = [gatherer EXCEPT
                    !.at[i] = "settled",
                    !.search_responses[i] = Settled(gatherer.cache[key].out),
                    !.writes = @ \cup {Write("_cache", key, i),
                                        Write("search_responses", ToString(i), i)}]
           ELSE LET cache1 == [k \in DOMAIN gatherer.cache \ {key} |-> gatherer.cache[k]]
                    w1 == IF cached THEN {Write("_cache", key, i)} ELSE {}
                    w2 == {Write("_last_requests", service, i)}
                IN  IF gatherer.last_requests[service] < rate_limits[service]
                    THEN gatherer' = [gatherer EXCEPT
                             !.at[i] = "requesting",
                             !.cache = cache1,
                             !.last_requests[service] = @ + 1,
                             !.writes = @ \cup w1 \cup w2]
                    ELSE gatherer' = [gatherer EXCEPT
                             !.at[i] = "settled",
                             !.cache = [k \in DOMAIN cache1 \cup {key} |->
                                          IF k = key
                                          THEN [valid |-> TRUE, out |-> "empty"]
                                          ELSE cache1[k]],
                             !.search_responses[i] = Settled("empty"),
                             !.writes = @ \cup w1 \cup w2
                                          \cup {Write("_cache", key, i),
                                                Write("search_responses", ToString(i), i)}]
    /\ UNCHANGED <<pc, agent_i, search_context, agent_responses, obs>>
    /\ UNCHANGED gatherFrame

\* search, lines 248-284, for lookup i, from the answer of its request on:
\* the response is built and cached and the lookup settles; a lookup that
\* raised settles with an empty response that is not cached
CompleteLookup(i) ==
    /\ pc = "gather"
    /\ i \in 1..Len(gatherer.tasks)
    /\ gatherer.at[i] = "requesting"
    /\ \E out \in SearchOutcomes :
          LET key == KeyOf(gatherer.tasks[i], context.query)
          IN  gatherer' = [gatherer EXCEPT
                  !.at[i] = "settled",
                  !.search_responses[i] = Settled(out),
                  !.cache = IF out = "error" THEN @
                            ELSE [k \in DOMAIN @ \cup {key} |->
                                     IF k = key THEN [valid |-> TRUE, out |-> out]
                                     ELSE @[k]],
                  !.writes = @ \cup {Write("search_responses", ToString(i), i)}
                               \cup (IF out = "error" THEN {}
                                     ELSE {Write("_cache", key, i)})]
    /\ UNCHANGED <<pc, agent_i, search_context, agent_responses, obs>>
    /\ UNCHANGED gatherFrame

\* lines 399-413: asyncio.gather returns when every lookup has settled; the
\* responses are folded into the search context
AggregateLookups ==
    /\ pc = "gather"
    /\ gatherer.phase = "gathering"
    /\ \A i \in 1..Len(gatherer.tasks) : gatherer.search_responses[i].settled
    /\ LET tasks == gatherer.tasks
           outs == [i \in 1..Len(tasks) |-> gatherer.search_responses[i].out]
       IN  \E sources \in Orderings(UNION {LookupSources(tasks[i], outs[i]) :
                                             i \in 1..Len(tasks)}) :
              /\ search_context' = [results |-> GatherResults(tasks, outs, 1),
                                    sources |-> sources]
              /\ obs' = [obs EXCEPT !.searches = @ + Len(tasks),
                                     !.lookups = [i \in 1..Len(tasks) |->
                                         [search_type |-> tasks[i], out |-> outs[i]]]]
    /\ gatherer' = [gatherer EXCEPT !.phase = "aggregated"]
    /\ agent_i' = 1
    /\ agent_responses' = <<>>
    /\ pc' = "agent_loop"
    /\ UNCHANGED gatherFrame

GatherNext ==
    \/ \E i \in {1, 2} : StartLookup(i)
    \/ \E i \in {1, 2} : CompleteLookup(i)
    \/ AggregateLookups

GatherSpec == GatherInit /\ [][GatherNext]_vars

(***************************************************************************)
(* AgentRegistry: the sessions                                             *)
(***************************************************************************)

SessionIds == {"test-session-123", "test-session-456"}

SessionAgentTypes == {"regulation_analysis", "risk_scoring"}

\* user contexts, each standing for one dict
UserContexts == {"{}", "{user_id: test-user}"}

\* the hours the clock of the registry goes through
Hours == 0..3

\* values of max_age_hours
MaxAges == {0, 1, 2}

\* faulty variant of update_session_activity (an unknown id gets a session),
\* for C32
update_session_activity_creates(sessions, session_id, now) ==
    [x \in DOMAIN sessions \cup {session_id} |->
        IF x = session_id
        THEN IF x \in DOMAIN sessions
             THEN [sessions[x] EXCEPT !.last_activity = now]
             ELSE [NoSession EXCEPT !.last_activity = now]
        ELSE sessions[x]]

\* active_sessions after register_session: the entry of the id is replaced
register_session(sessions, session_id, agent_type, user_context, now) ==
    [x \in DOMAIN sessions \cup {session_id} |->
        IF x = session_id
        THEN [agent_type |-> agent_type, user_context |-> user_context,
              created_at |-> now, last_activity |-> now]
        ELSE sessions[x]]

\* active_sessions.get(session_id): the session, or None (found = FALSE)
get_session(sessions, session_id) ==
    IF session_id \in DOMAIN sessions
    THEN [found |-> TRUE, session |-> sessions[session_id]]
    ELSE [found |-> FALSE, session |-> NoSession]

\* active_sessions after update_session_activity
update_session_activity(sessions, session_id, now) ==
    IF session_id \in DOMAIN sessions
    THEN [sessions EXCEPT ![session_id].last_activity = now]
    ELSE sessions

\* old_sessions of cleanup_sessions: last_activity before the cutoff time
\* (the timestamps are written by isoformat and always parse)
OldSessions(sessions, max_age_hours, now) ==
    {x \in DOMAIN sessions : sessions[x].last_activity < now - max_age_hours}

\* active_sessions after cleanup_sessions
cleanup_sessions(sessions, max_age_hours, now) ==
    [x \in DOMAIN sessions \ OldSessions(sessions, max_age_hours, now) |-> sessions[x]]

\* a registry just constructed; no query is being processed
RegistryInit ==
    /\ gatherer = NoGatherer
    /\ active_sessions = NoSessions
    /\ reg_env = NoRegEnv
    /\ entry = "orchestrator"
    /\ request = NoContext
    /\ front = NoFront
    /\ context = NoContext
    /\ pc = "idle"
    /\ complexity_analysis = NoAnalysis
    /\ query_parts = <<>>
    /\ part_i = 0
    /\ responses = <<>>
    /\ required_agents = <<>>
    /\ agent_i = 0
    /\ search_context = NoSearchContext
    /\ agent_responses = <<>>
    /\ composed = ""
    /\ disp = NoDisp
    /\ result = ""
    /\ outcome = "running"
    /\ obs = NoObs

orchVars ==
    <<entry, request, front, context, pc, complexity_analysis, query_parts,
      part_i, responses, required_agents, agent_i, search_context,
      agent_responses, composed, disp, result, outcome, obs>>

Called(op, session_id) == [NoReturn EXCEPT !.op = op, !.session_id = session_id]

RegisterSession ==
    /\ UNCHANGED gatherer
    /\ \E session_id \in SessionIds, agent_type \in SessionAgentTypes,
          user_context \in UserContexts :
          /\ active_sessions' = register_session(active_sessions, session_id,
                                     agent_type, user_context, reg_env.utcnow)
          /\ reg_env' = [reg_env EXCEPT
                !.returned = Called("register_session", session_id),
                !.registered = register_session(@, session_id, agent_type,
                                                user_context, reg_env.utcnow),
                !.removed = @ \ {session_id}]
    /\ UNCHANGED orchVars

GetSession ==
    /\ UNCHANGED gatherer
    /\ \E session_id \in SessionIds \cup {"unknown"} :
          reg_env' = [reg_env EXCEPT
              !.returned = [Called("get_session", session_id) EXCEPT
                  !.found = get_session(active_sessions, session_id).found,
                  !.session = get_session(active_sessions, session_id).session]]
    /\ UNCHANGED active_sessions
    /\ UNCHANGED orchVars

UpdateSessionActivity ==
    /\ UNCHANGED gatherer
    /\ \E session_id \in SessionIds \cup {"unknown"} :
          /\ active_sessions' = update_session_activity(active_sessions, session_id,
                                                        reg_env.utcnow)
          /\ reg_env' = [reg_env EXCEPT
                !.returned = Called("update_session_activity", session_id)]
    /\ UNCHANGED orchVars

CleanupSessions ==
    /\ UNCHANGED gatherer
    /\ \E max_age_hours \in MaxAges :
          LET old == OldSessions(active_sessions, max_age_hours, reg_env.utcnow)
          IN  /\ active_sessions' = cleanup_sessions(active_sessions, max_age_hours,
                                                     reg_env.utcnow)
              /\ reg_env' = [reg_env EXCEPT
                    !.returned = [Called("cleanup_sessions", "") EXCEPT
                                     !.removed = Cardinality(old)],
                    !.removed = @ \cup old]
    /\ UNCHANGED orchVars

\* an hour passes
ClockAdvances ==
    /\ UNCHANGED gatherer
    /\ reg_env.utcnow + 1 \in Hours
    /\ reg_env' = [reg_env EXCEPT !.utcnow = @ + 1, !.returned = NoReturn]
    /\ UNCHANGED active_sessions
    /\ UNCHANGED orchVars

RegistryNext ==
    \/ RegisterSession
    \/ GetSession
    \/ UpdateSessionActivity
    \/ CleanupSessions
    \/ ClockAdvances

RegistrySpec == RegistryInit /\ [][RegistryNext]_vars

\* the front end is asked for the latest news
NewsInit ==
    /\ gatherer = NoGatherer
    /\ active_sessions = NoSessions
    /\ reg_env = NoRegEnv
    /\ entry = "legal"
    /\ request \in NewsRequests
    /\ front = [NoFront EXCEPT !.stage = "start"]
    /\ context = NoContext
    /\ pc = "idle"
    /\ complexity_analysis = NoAnalysis
    /\ query_parts = <<>>
    /\ part_i = 0
    /\ responses = <<>>
    /\ required_agents = <<>>
    /\ agent_i = 0
    /\ search_context = NoSearchContext
    /\ agent_responses = <<>>
    /\ composed = ""
    /\ disp = NoDisp
    /\ result = ""
    /\ outcome = "running"
    /\ obs = NoObs

\* the steps of a query that takes the standard path behind the front end
NewsNext ==
    \/ LegalRouteAndCallPrimary
    \/ BasicCheck
    \/ ComplexityAnalysis
    \/ AnalyzeQueryRequirements
    \/ GatherSearchContext
    \/ NextAgent
    \/ ExecuteSingleAgent
    \/ PollOnce
    \/ AfterPolling
    \/ AfterFailedAttempt
    \/ AgentDispatchDone
    \/ SynthesizeResponses
    \/ SynthesisDispatchDone
    \/ FormatAndChunk
    \/ LegalPrimaryDone

NewsSpec == NewsInit /\ [][NewsNext]_vars

ChunkNext == FormatAndChunk

(***************************************************************************)
(* One dispatch against a backend that is rate limited: process_query has  *)
(* taken the single enhanced dispatch of the complex path                  *)
(***************************************************************************)

\* _process_complex_query at line 192: _execute_single_agent_with_retry has
\* been called with the enhanced prompt and attempt 0 is about to start
RateLimitInit ==
    /\ gatherer = NoGatherer
    /\ active_sessions = NoSessions
    /\ reg_env = NoRegEnv
    /\ entry = "orchestrator"
    /\ request = Ctx(QUpperAnd, "text", TRUE, DefaultMaxResponseLength)
    /\ front = NoFront
    /\ context = request
    /\ pc = "dispatch"
    /\ complexity_analysis = AnalysisOf[request.query]
    /\ query_parts = PartsOf[request.query]
    /\ part_i = 0
    /\ responses = <<>>
    /\ required_agents = <<>>
    /\ agent_i = 0
    /\ search_context = NoSearchContext
    /\ agent_responses = <<>>
    /\ composed = ""
    /\ disp = [NoDisp EXCEPT !.site = "single", !.agent_id = main_agent_id,
                             !.query = create_enhanced_complex_prompt(request.query),
                             !.phase = "attempt"]
    /\ result = ""
    /\ outcome = "running"
    /\ obs = [NoObs EXCEPT !.stages = <<"BASIC_CHECK", "COMPLEXITY_ANALYSIS",
                                        "COMPLEX_PATH">>,
                           !.analysis_calls = 1, !.in_flight = 1, !.dispatches = 1,
                           !.log = <<[ev |-> "start", site |-> "single",
                                      agent_id |-> main_agent_id]>>]

\* one attempt (line 515) against the rate limited backend:
\* _execute_single_agent raises the rate limit error of the backend out of
\* its first call (lines 722-735), or the run completes and the reply is read
RateLimitedAttempt ==
    /\ UNCHANGED regVars
    /\ pc = "dispatch"
    /\ disp.phase = "attempt"
    /\ \/ \E e \in HintedErrors :
            disp' = [disp EXCEPT !.phase = "failed", !.error = e, !.wait = 0,
                                 !.invocations = @ + 1]
       \/ \E t \in BackendTexts :
            disp' = [disp EXCEPT !.phase = "succeeded", !.text = t, !.wait = 0,
                                 !.invocations = @ + 1]
    /\ UNCHANGED <<entry, request, front, runVars, result, outcome, obs>>

RateLimitNext == RateLimitedAttempt \/ AfterFailedAttempt

RateLimitSpec == RateLimitInit /\ [][RateLimitNext]_vars

ChunkSpec == ChunkInit /\ [][ChunkNext]_vars

(***************************************************************************)
(* Properties                                                              *)
(***************************************************************************)

\* the events of the log before position j that are of one of the kinds
EventsBefore(j, kinds) == {i \in 1..(j - 1) : obs.log[i].ev \in kinds}

\* some dispatch of one of the sites has failed (raised out of the retry loop)
SomeFailureAt(sites) ==
    \E i \in 1..Len(obs.log) : obs.log[i].ev = "fail" /\ obs.log[i].site \in sites

\* the query is answered by the basic check
ShortCircuited == context.query \in BasicQueries

\* C1: whatever the backend and the searches do, one call of process_query
\* returns exactly one string to its caller and no exception leaves it: the
\* call is running or has returned, it has returned at most once, and a run
\* that is in DONE or ERROR has returned exactly once.
C1_OneReturnNoEscape ==
    /\ outcome \in {"running", "returned"}
    /\ obs.returns <= 1
    /\ outcome = "returned" <=> obs.returns = 1
    /\ pc \in {"DONE", "ERROR"} => outcome = "returned"

\* a run whose dispatch failed on every attempt has returned its one string
C1_Witness ==
    /\ pc = "ERROR"
    /\ outcome = "returned"
    /\ obs.returns = 1
    /\ obs.final_error = RunFailedError("server_error")

\* C2: one dispatch invokes the backend at most max_retries + 1 = 4 times,
\* and once an invocation has succeeded the dispatch returns that text to its
\* call site: the next step hands the text over and ends the dispatch, with
\* no further invocation and no further sleep of the retry loop.
C2_BoundedInvocations ==
    /\ [](disp.invocations <= max_retries + 1 /\ disp.invocations <= 4)
    /\ [][disp.phase = "succeeded" =>
             /\ disp' = NoDisp
             /\ disp.site \in {"single", "synthesis"} => composed' = disp.text
             /\ disp.site = "part" =>
                   responses' = Append(responses,
                       PartSection(part_i, query_parts[part_i], disp.text))
             /\ disp.site = "agent" =>
                   agent_responses' = Append(agent_responses,
                       AgentResponse(required_agents[agent_i], disp.text))]_vars

\* the fourth invocation of a dispatch has succeeded
C2_Witness ==
    /\ disp.phase = "succeeded"
    /\ disp.invocations = max_retries + 1
    /\ disp.text = ShortAnswer

\* the stages of a run that was not short-circuited, up to the path
StagesToPath ==
    <<"BASIC_CHECK", "COMPLEXITY_ANALYSIS",
      IF complexity_analysis.requires_specialized_processing
      THEN "COMPLEX_PATH" ELSE "STANDARD_PATH">>

\* what C3 says of the stages: the analysis once, then exactly one path,
\* DONE only through FORMAT_AND_CHUNK applied once to the composed response
C3_Stages ==
    /\ obs.analysis_calls <= 1
    /\ obs.format_calls <= 1
    /\ (~ShortCircuited /\ pc \in {"DONE", "ERROR"}) =>
          /\ obs.analysis_calls = 1
          /\ complexity_analysis = analyze_complexity(context.query)
          /\ SubSeq(obs.stages, 1, 3) = StagesToPath
    /\ (~ShortCircuited /\ pc = "DONE") =>
          /\ obs.stages = StagesToPath \o <<"FORMAT_AND_CHUNK", "DONE">>
          /\ obs.format_calls = 1
          /\ result = format_and_chunk_output(context, composed, complexity_analysis)
    /\ (~ShortCircuited /\ pc = "ERROR") =>
          /\ obs.stages = StagesToPath \o <<"ERROR">>
          /\ obs.format_calls = 0

\* C3: a run that is not short-circuited by the basic check performs the
\* complexity analysis once, then takes exactly one of COMPLEX_PATH (if and
\* only if requires_specialized_processing) and STANDARD_PATH, and reaches
\* DONE only after FORMAT_AND_CHUNK has been applied exactly once to the
\* composed response; a failure of the single enhanced dispatch or of the
\* synthesis dispatch ends the run in ERROR, and only such a failure does: a
\* failed part dispatch or agent dispatch leaves the run on its way to DONE.
C3_StagesAndErrors ==
    /\ C3_Stages
    /\ pc = "ERROR" =>
          /\ obs.log[Len(obs.log)].ev = "fail"
          /\ obs.log[Len(obs.log)].site \in {"single", "synthesis"}
          /\ result = generate_error_response(obs.final_error)
    /\ (pc \in {"FORMAT_AND_CHUNK", "DONE"} /\ Len(obs.log) > 0) =>
          ~(/\ obs.log[Len(obs.log)].ev = "fail"
            /\ obs.log[Len(obs.log)].site \in {"single", "synthesis"})

\* a run with a failed part dispatch has ended in DONE
C3_Witness ==
    /\ pc = "DONE"
    /\ ~ShortCircuited
    /\ SomeFailureAt({"part"})
    /\ obs.format_calls = 1

\* C3 as stated: the stages as above, and any failure on the way ends the
\* run in ERROR
C3_AnyFailureEndsInError ==
    /\ C3_Stages
    /\ (pc \in {"DONE", "ERROR"} /\ SomeFailureAt({"single", "part", "agent", "synthesis"}))
          => pc = "ERROR"

\* C4: a greeting, a help request or a thanks is answered by the canned
\* response with no backend dispatch and no search lookup; every other
\* query goes on to the complexity analysis.
C4_BasicCheckShortCircuits ==
    /\ (ShortCircuited /\ pc # "idle") =>
          /\ obs.dispatches = 0
          /\ obs.searches = 0
          /\ obs.analysis_calls = 0
          /\ pc \in {"RECEIVED", "DONE"}
          /\ pc = "DONE" => /\ outcome = "returned"
                            /\ result = handle_basic_queries(context.query)
                            /\ obs.stages = <<"BASIC_CHECK", "DONE">>
    /\ (~ShortCircuited /\ pc \notin {"idle", "RECEIVED"}) =>
          /\ obs.stages[1] = "BASIC_CHECK"
          /\ pc = "COMPLEXITY_ANALYSIS" \/ obs.analysis_calls = 1

\* a help request has been answered by the canned response
C4_Witness ==
    /\ context.query = QHelp
    /\ pc = "DONE"
    /\ result = HelpResponse
    /\ obs.dispatches = 0

\* the call the caller made has ended
CallEnded ==
    IF entry = "orchestrator" THEN pc \in {"DONE", "ERROR"} ELSE front.stage = "done"

\* C5: every process_query call eventually terminates, in DONE or ERROR, for
\* every backend behaviour, runs that never reach a terminal state and
\* attempts that all fail included.
C5_EventuallyTerminates == <>CallEnded

\* the backend never reached a terminal state on any of the four attempts,
\* and the call has ended
C5_Witness ==
    /\ entry = "orchestrator"
    /\ pc = "ERROR"
    /\ obs.final_error = TimeoutError
    /\ obs.dispatches = 1

\* C6: at most one backend agent dispatch is in flight at any time, on
\* every path: a dispatch is in flight exactly while the retry loop runs.
C6_OneDispatchInFlight ==
    /\ obs.in_flight \in {0, 1}
    /\ obs.in_flight = 1 <=> disp.phase # "none"
    /\ pc = "dispatch" <=> disp.phase # "none"

\* the synthesis dispatch is in flight after two agent dispatches
C6_Witness ==
    /\ disp.site = "synthesis"
    /\ disp.phase = "polling"
    /\ obs.in_flight = 1
    /\ obs.dispatches = 3

\* C7: in the multi-agent path the dispatches are totally ordered: a
\* dispatch or an agent call begins only when every earlier dispatch has
\* returned or failed (so the synthesis follows all of them), and an agent
\* after the first is dispatched only when no earlier dispatch has failed,
\* that is, only after the primary succeeded.
C7_SecondaryOnlyAfterPrimarySucceeded ==
    \A j \in 1..Len(obs.log) :
        /\ obs.log[j].ev \in {"start", "call"} =>
              Cardinality(EventsBefore(j, {"start"}))
                  = Cardinality(EventsBefore(j, {"ok", "fail"}))
        /\ (\/ obs.log[j].ev = "start" /\ obs.log[j].site = "agent"
            \/ obs.log[j].ev = "call" /\ obs.log[j].site = "secondary") =>
              EventsBefore(j, {"fail"}) = {}

\* the sections of a multi-part answer: section i is numbered i and is the
\* response section of part i, or the error section of part i
IsSectionOf(section, i) ==
    \/ /\ StartsWith(section, "**" \o ToString(i) \o ". Response to: "
                              \o Prefix(query_parts[i], 60))
       /\ Len(query_parts[i]) <= 60 =>
             StartsWith(section, "**" \o ToString(i) \o ". Response to: "
                                 \o query_parts[i] \o "**\n\n")
    \/ StartsWith(section, "**" \o ToString(i) \o ". Error processing part:** ")

\* C8: in the multi-part path with n > 1 parts the parts are dispatched one
\* at a time in their original order, and the composed response handed to
\* FORMAT_AND_CHUNK is the header, n numbered sections in that order joined
\* by the separator, and the closing summary note; section i is the response
\* section of part i (with a preview of at most 60 characters of its query)
\* when its dispatch returned and the error section of part i when it
\* failed; the returned text is that response formatted and chunked.
C8_SectionsInOrder ==
    Len(query_parts) > 1 =>
        /\ (pc = "dispatch" /\ disp.site = "part") =>
              /\ Len(responses) = part_i - 1
              /\ disp.query = create_focused_prompt(query_parts[part_i], part_i,
                                                    Len(query_parts))
        /\ \A i \in 1..Len(responses) : IsSectionOf(responses[i], i)
        /\ pc \in {"FORMAT_AND_CHUNK", "DONE"} =>
              /\ Len(responses) = Len(query_parts)
              /\ composed = MultiPartHeader \o Join(responses, PartSeparator)
                             \o SummaryNote
        /\ pc = "DONE" =>
              result = format_and_chunk_output(context, composed, complexity_analysis)

\* a two-part answer with both sections has been returned
C8_Witness ==
    /\ pc = "DONE"
    /\ context.query = QCompound
    /\ Len(responses) = 2
    /\ ~SomeFailureAt({"part"})
    /\ Contains(SummaryNote, result)

\* C8 as stated: the returned text contains the n numbered sections in
\* order, each header with the preview of its part's query, followed by the
\* closing summary note
C8_ReturnedTextHasAllSections ==
    (Len(query_parts) > 1 /\ pc = "DONE") =>
        /\ \A i \in 1..Len(query_parts) :
              Contains("**" \o ToString(i) \o ". Response to: "
                       \o Prefix(query_parts[i], 60), result)
        /\ \A i \in 1..(Len(query_parts) - 1) :
              Find("**" \o ToString(i) \o ". ", result)
                  < Find("**" \o ToString(i + 1) \o ". ", result)
        /\ Contains(SummaryNote, result)
        /\ Find("**" \o ToString(Len(query_parts)) \o ". ", result)
              < Find(SummaryNote, result)

\* the kind of an error, as C9 puts it
IsPollingTimeout(error) == error = TimeoutError

\* C9: the message returned on failure is chosen by the kind of the error
\* that ended the query: the rate-limit message for a rate-limit failure,
\* the timeout message for a timeout (the polling timeout raised after 90 s
\* included), the generic message for every other error.
C9_MessageByErrorKind ==
    (pc = "ERROR" /\ outcome = "returned") =>
        IF IsRateLimit(obs.final_error)
        THEN result = RateLimitMessage
        ELSE IF IsPollingTimeout(obs.final_error)
                \/ Contains("timeout", Lower(obs.final_error))
        THEN result = TimeoutMessage
        ELSE StartsWith(result, GenericMessageHead)

\* C10: the text returned to the caller never contains the message text of
\* an internal exception, on any path (single dispatch, multi-part,
\* multi-agent, through legal_orchestrator or not).
C10_NoExceptionTextReturned ==
    /\ outcome = "returned" => \A e \in ExceptionTexts : ~Contains(e, result)
    /\ front.stage = "done" => \A e \in ExceptionTexts : ~Contains(e, front.result)

\* the formatted response of the run, and the condition of lines 568-570
FormattedResponse == format_output(context.output_format, composed)

ChunkerApplies ==
    /\ context.enable_chunking
    /\ Len(FormattedResponse) > context.max_response_length
    /\ complexity_analysis.requires_chunking

\* C11: whenever enable_chunking is set, the text process_query returns on
\* success is no longer than max_response_length, for every length of the
\* agent's answer.
C11_ReturnedTextWithinLimit ==
    (pc = "DONE" /\ outcome = "returned" /\ context.enable_chunking) =>
        Len(result) <= context.max_response_length

\* the first chunk was made by cutting an over-long sentence
ForcedTruncation(chunks, max_length) ==
    /\ Len(chunks[1]) = max_length - 20 + 3
    /\ EndsWith(chunks[1], "...")

\* C12: for a text longer than max_length that needs more than one segment,
\* the chunker returns the first segment ending with the 'part 1 of N'
\* notice, and the returned text is at most max_length characters long
\* unless the first segment was made by the forced truncation.
C12_FirstSegmentWithinLimit ==
    (pc = "DONE" /\ outcome = "returned" /\ ChunkerApplies) =>
        LET max_length == context.max_response_length
            chunks == Chunks(FormattedResponse, max_length)
        IN  Len(chunks) > 1 =>
              /\ result = chunks[1] \o ContinuationNotice(Len(chunks))
              /\ EndsWith(result, ContinuationNotice(Len(chunks)))
              /\ \/ Len(result) <= max_length
                 \/ ForcedTruncation(chunks, max_length)

\* C13: in FORMAT_AND_CHUNK the chunker is applied to the formatted response
\* if and only if enable_chunking is set, the formatted response is longer
\* than max_response_length and the analysis flagged requires_chunking; in
\* every other case the formatted response is returned unchanged.
C13_ChunkerAppliedIffFlagged ==
    (pc = "DONE" /\ outcome = "returned" /\ obs.format_calls = 1) =>
        /\ ChunkerApplies =>
              result = chunk_response(FormattedResponse, context.max_response_length)
        /\ ~ChunkerApplies => result = FormattedResponse

\* the chunker has cut a flagged response that was too long
C13_Witness ==
    /\ pc = "DONE"
    /\ ChunkerApplies
    /\ result # FormattedResponse
    /\ Len(result) < Len(FormattedResponse)

\* min(5 * 2^a, 60) for the attempts a = 0, 1, 2 that a retry may follow
ExpectedBackoff == <<5, 10, 20>>

\* the error text carries the hint 'try again in 7 seconds', in any case
CarriesHintOf7(error) == Contains("try again in 7 seconds", Lower(error))

\* the sleeps of a run of rate-limit failures, none with a hint
PlainRateLimits(sleeps) ==
    \A i \in 1..Len(sleeps) : sleeps[i].branch = "rate_limit" /\ ~sleeps[i].hinted

\* C14: after a rate-limit failure on attempt a < max_retries the dispatcher
\* sleeps exactly N + 1 seconds when the error text carries 'try again in N
\* seconds', and exactly min(5 * 2^a, 60) seconds otherwise, then starts
\* attempt a + 1; a dispatch that succeeds on attempt 2 after two rate-limit
\* failures without a hint has slept 5 + 10 = 15 seconds and returns the
\* text of the backend.
C14_RateLimitDelays ==
    /\ [][(/\ disp.phase = "failed"
            /\ IsRateLimit(disp.error)
            /\ disp.attempt < max_retries) =>
              /\ disp'.phase = "attempt"
              /\ disp'.attempt = disp.attempt + 1
              /\ disp'.wait = IF CarriesHintOf7(disp.error) THEN 7 + 1
                              ELSE ExpectedBackoff[disp.attempt + 1]
              /\ disp'.sleeps = Append(disp.sleeps,
                                       [branch |-> "rate_limit",
                                        hinted |-> CarriesHintOf7(disp.error),
                                        wait |-> disp'.wait])]_vars
    /\ []((/\ disp.phase = "succeeded"
           /\ Len(disp.sleeps) = 2
           /\ PlainRateLimits(disp.sleeps)) =>
              /\ disp.attempt = 2
              /\ disp.invocations = 3
              /\ disp.sleeps[1].wait + disp.sleeps[2].wait = 15
              /\ disp.text \in BackendTexts \cup {NoResponseText})

\* scenario D: two rate-limit failures without a hint, then the answer
C14_Witness ==
    /\ disp.phase = "succeeded"
    /\ disp.text = ShortAnswer
    /\ Len(disp.sleeps) = 2
    /\ PlainRateLimits(disp.sleeps)
    /\ disp.sleeps[1].wait = 5
    /\ disp.sleeps[2].wait = 10

\* C15: after a rate-limit failure on attempt a, the delay before attempt
\* a + 1 is at least min(base_delay * 2^a, max_delay) when the error text
\* carries no wait hint; when it carries one the delay is the hinted N + 1
\* seconds, at least 1, whatever the backoff value is.
C15_DelayAtLeastBackoffUnlessHinted ==
    \A i \in 1..Len(disp.sleeps) :
        disp.sleeps[i].branch = "rate_limit" =>
            IF disp.sleeps[i].hinted
            THEN disp.sleeps[i].wait >= 1
            ELSE disp.sleeps[i].wait >= ExpectedBackoff[i]

\* a hinted wait of 8 seconds after attempt 1, where the backoff value is 10
C15_Witness ==
    /\ Len(disp.sleeps) >= 2
    /\ disp.sleeps[2].branch = "rate_limit"
    /\ disp.sleeps[2].hinted
    /\ disp.sleeps[2].wait < ExpectedBackoff[2]

\* C15 as stated: the delay after a rate-limit failure on attempt a is at
\* least min(base_delay * 2^a, max_delay), for every error text
C15_DelayAtLeastBackoff ==
    \A i \in 1..Len(disp.sleeps) :
        disp.sleeps[i].branch = "rate_limit" =>
            disp.sleeps[i].wait >= ExpectedBackoff[i]

\* the status polls one backend call has made so far, one every 2 seconds
Polls == disp.elapsed_time \div 2

\* C16: one backend call makes at most 45 status polls, 2 s apart and 90 s in
\* all; a call whose run has not reached a terminal state when the 90 s are
\* over fails with the timeout failure, and on an attempt before the last
\* one the retry loop sleeps 5 s and starts the next attempt.
C16_PollingBoundedThenRetried ==
    /\ [](/\ Polls <= 45
          /\ disp.elapsed_time = 2 * Polls
          /\ disp.elapsed_time <= 90)
    /\ [][(/\ disp.phase = "polling"
            /\ disp.elapsed_time = 90) =>
              /\ disp'.phase = "failed"
              /\ disp'.error = "Agent execution timed out after 90 seconds"
              /\ disp'.attempt = disp.attempt
              /\ disp'.invocations = disp.invocations]_vars
    /\ [][(/\ disp.phase = "failed"
            /\ disp.error = "Agent execution timed out after 90 seconds"
            /\ disp.attempt < max_retries) =>
              /\ disp'.phase = "attempt"
              /\ disp'.attempt = disp.attempt + 1
              /\ disp'.wait = 5
              /\ disp'.sleeps = Append(disp.sleeps,
                                       [branch |-> "timeout", hinted |-> FALSE,
                                        wait |-> 5])]_vars

\* the second attempt of a dispatch has timed out after the first one did
C16_Witness ==
    /\ disp.phase = "failed"
    /\ disp.error = TimeoutError
    /\ disp.attempt = 1
    /\ disp.sleeps = <<[branch |-> "timeout", hinted |-> FALSE, wait |-> 5]>>

\* C17: a dispatch raises only after all max_retries + 1 attempts have
\* failed, and what it raises is the error of the last attempt, one of the
\* messages of _execute_single_agent: the generic 'Max retries exceeded'
\* error is never raised.
C17_LastErrorRaised ==
    disp.phase = "raised" =>
        /\ disp.invocations = max_retries + 1
        /\ disp.attempt = max_retries
        /\ disp.error \in ExceptionTexts
        /\ disp.error # "Max retries exceeded"

\* every attempt of a dispatch has ended with a failed run
C17_Witness ==
    /\ disp.phase = "raised"
    /\ disp.invocations = max_retries + 1
    /\ disp.error = RunFailedError("server_error")

\* C17 as stated: if all max_retries + 1 attempts of a dispatch fail, the
\* dispatch raises the generic 'max retries exceeded' error
C17_MaxRetriesExceededRaised ==
    (disp.phase = "raised" /\ disp.invocations = max_retries + 1) =>
        disp.error = "Max retries exceeded"

\* C18: when the attempt numbered max_retries fails, whatever the kind of
\* the failure, the dispatcher raises that attempt's error to its caller
\* without sleeping first and without invoking the backend again.
C18_LastAttemptPropagates ==
    [][(disp.phase = "failed" /\ disp.attempt = max_retries) =>
          /\ disp'.phase = "raised"
          /\ disp'.error = disp.error
          /\ disp'.sleeps = disp.sleeps
          /\ disp'.wait = disp.wait
          /\ disp'.invocations = disp.invocations]_vars

\* the last attempt of a dispatch has failed with a rate-limit error after
\* three sleeps, and the error is raised
C18_Witness ==
    /\ disp.phase = "raised"
    /\ IsRateLimit(disp.error)
    /\ disp.attempt = max_retries
    /\ Len(disp.sleeps) = max_retries

\* the messages process_query returns for a dispatch that failed
ErrorResponses == {ErrorResponseOf[e] : e \in DispatchErrors}

\* the texts a completed backend call returns
Answers == BackendTexts \cup {NoResponseText}

\* C19: a secondary agent whose dispatch failed after its retries is left
\* out of the synthesis input, the remaining agents are still dispatched,
\* and the query is not failed for that reason; so the responses collected
\* from agent dispatches are answers, the synthesis starts only when every
\* required agent has had its turn, no run ends in ERROR on an agent
\* dispatch, and no secondary response of the multi-agent front end is the
\* error message of a failed call.
C19_FailedSecondaryOmitted ==
    /\ \A i \in 1..Len(agent_responses) :
          agent_responses[i].agent_type # NEWS_MONITOR =>
              agent_responses[i].content \in Answers
    /\ disp.site = "synthesis" => agent_i = Len(required_agents) + 1
    /\ (pc = "ERROR" /\ Len(obs.log) > 0) => obs.log[Len(obs.log)].site # "agent"
    /\ front.stage = "done" =>
          \A i \in 1..Len(front.secondary_responses) :
              front.secondary_responses[i].response \notin ErrorResponses

\* the calls of the fallback agent made by _execute_with_agents
FallbackCalls ==
    {j \in 1..Len(obs.log) : obs.log[j].ev = "call" /\ obs.log[j].site = "fallback"}

\* C20: when the call of the primary agent has failed entirely (its answer
\* is the error message of a failed dispatch), exactly one call of the
\* fallback agent is made if the fallback agent id differs from the primary
\* agent's id, and its answer, alone, is the result; without a distinct
\* fallback the whole query fails: the result is an error message.
C20_FallbackOnPrimaryFailure ==
    (entry = "legal" /\ front.stage = "done"
        /\ front.primary_response \in ErrorResponses) =>
        IF main_agent_id # AgentIdFor(front.routing.primary_agent)
        THEN /\ Cardinality(FallbackCalls) = 1
             /\ front.secondary_responses = <<>>
             /\ front.result \notin ErrorResponses
        ELSE front.result \in ErrorResponses

\* the run took the standard path and its agent loop is over
AfterAgentLoop ==
    /\ Len(obs.stages) >= 3
    /\ obs.stages[3] = "STANDARD_PATH"
    /\ \/ pc \in {"FORMAT_AND_CHUNK", "DONE", "ERROR"}
       \/ pc = "dispatch" /\ disp.site = "synthesis"

\* the last dispatch of the run so far was the synthesis dispatch
SynthesisIssued ==
    \/ disp.site = "synthesis"
    \/ /\ Len(obs.log) > 0
       /\ obs.log[Len(obs.log)].site = "synthesis"

\* C21: the additional synthesis dispatch is issued if and only if more than
\* one agent answered, for every number of agents that answered, zero
\* included; when exactly one response is available its content is the
\* composed response and no further backend call is made.
C21_SynthesisIffSeveralAnswers ==
    AfterAgentLoop =>
        /\ SynthesisIssued <=> Len(agent_responses) > 1
        /\ (Len(agent_responses) = 1 /\ pc \in {"FORMAT_AND_CHUNK", "DONE"}) =>
              composed = agent_responses[1].content

\* the synthesis dispatch of the run has failed after its retries
SynthesisFailed ==
    /\ Len(obs.log) > 0
    /\ obs.log[Len(obs.log)].ev = "fail"
    /\ obs.log[Len(obs.log)].site = "synthesis"

\* C22: when the synthesis dispatch fails after its retries, process_query
\* falls back to the concatenation of the individual agent responses: the
\* run ends in DONE with a text that holds every agent response and is not
\* an error message.
C22_SynthesisFailureFallsBack ==
    (SynthesisFailed /\ pc \in {"FORMAT_AND_CHUNK", "DONE", "ERROR"}) =>
        /\ pc # "ERROR"
        /\ pc = "DONE" =>
              /\ result \notin ErrorResponses
              /\ \A k \in 1..Len(agent_responses) :
                    Contains(agent_responses[k].content, result)


\* the lookups of the last gather that did not raise
Succeeded == {i \in 1..Len(obs.lookups) : obs.lookups[i].out # "error"}

SourceNameOf(search_type) ==
    IF search_type = "LEGAL_CORPUS" THEN "Azure AI Search" ELSE "Bing Web Search"

HitOf(search_type) == IF search_type = "LEGAL_CORPUS" THEN LegalHit ELSE WebHit

\* C23: whichever of the issued lookups fail, the gather returns a search
\* context holding exactly the results and the sources of the lookups that
\* succeeded: a failed lookup contributes nothing, every lookup was issued,
\* and the gather itself does not raise (the pipeline goes on to the agents).
C23_GatherKeepsSucceededLookups ==
    Len(obs.lookups) > 0 =>
        /\ pc \in {"agent_loop", "dispatch"}
        /\ obs.searches = Len(SearchTasks(required_agents))
        /\ Len(obs.lookups) = Len(SearchTasks(required_agents))
        /\ {search_context.sources[k] : k \in 1..Len(search_context.sources)}
              = {SourceNameOf(obs.lookups[i].search_type) : i \in Succeeded}
        /\ Len(search_context.sources) = Cardinality(
              {SourceNameOf(obs.lookups[i].search_type) : i \in Succeeded})
        /\ {search_context.results[k] : k \in 1..Len(search_context.results)}
              = {HitOf(obs.lookups[i].search_type) :
                    i \in {j \in Succeeded : obs.lookups[j].out = "hit"}}
        /\ Len(search_context.results) = Cardinality(
              {j \in Succeeded : obs.lookups[j].out = "hit"})
        /\ outcome # "raised"

\* two lookups were issued, the first raised and the second returned a result
C23_Witness ==
    /\ pc = "agent_loop"
    /\ Len(obs.lookups) = 2
    /\ obs.lookups[1].out = "error"
    /\ obs.lookups[2].out = "hit"
    /\ search_context.results = <<WebHit>>
    /\ search_context.sources = <<"Bing Web Search">>

\* the query _break_down_complex_query was last applied to, with its result
Decomposed == pc \in {"decomposed", "redecomposed"}

\* the query holds " and " in whatever case and exactly one question mark
IsCompound(query) ==
    Contains(" and ", Lower(query)) /\ CountChar("?", query) = 1

BeforeFirstAnd(query) == Prefix(query, Find(" and ", Lower(query)) - 1)

AfterFirstAnd(query) == Suffix(query, Find(" and ", Lower(query)) + 4)

\* C24: a query that holds " and " (in any case) and exactly one "?" is
\* decomposed into exactly two parts, the text before and the text after the
\* first " and ", each ending with "?".
C24_CompoundSplitInTwo ==
    (Decomposed /\ IsCompound(context.query)) =>
        /\ Len(query_parts) = 2
        /\ query_parts[1] = WithQuestionMark(Strip(BeforeFirstAnd(context.query)))
        /\ query_parts[2] = WithQuestionMark(Strip(AfterFirstAnd(context.query)))

\* the sections the line scan of the decomposition finds
Sections(query) == ScanLines(Split(query, "\n"), 1, <<>>, <<>>)

\* the compound step returned its two parts
SplitAtAnd(query) == IsCompound(query) /\ Len(Split(query, " and ")) = 2

\* C25: the decomposition of every query, the empty one included, is a
\* non-empty sequence, and when the query cannot be split (the line scan
\* finds at most one section) it is the query itself, unchanged, alone.
C25_NonEmptyAndUnsplitUnchanged ==
    Decomposed =>
        /\ Len(query_parts) >= 1
        /\ (~SplitAtAnd(context.query) /\ Len(Sections(context.query)) <= 1) =>
              query_parts = <<context.query>>
        /\ Len(query_parts) = 1 => query_parts[1] = context.query

\* a query with surrounding blanks and a blank line came back as it went in
C25_Witness ==
    /\ pc = "decomposed"
    /\ context.query = " Padded query \n\n next line "
    /\ Len(Sections(context.query)) = 1
    /\ query_parts = <<" Padded query \n\n next line ">>

LinesOf(query) == Split(query, "\n")

\* some line of the text opens with a list marker
HasListMarker(text) ==
    \E i \in 1..Len(LinesOf(text)) :
        LET line == Strip(LinesOf(text)[i])
        IN  \/ IsDigit(Char(line, 1))
            \/ StartsWith(line, "-")
            \/ StartsWith(line, "~~~")

\* some line of the text after its first non-blank line ends with "?"
HasLaterQuestionLine(text) ==
    \E i, j \in 1..Len(LinesOf(text)) :
        /\ j < i
        /\ Strip(LinesOf(text)[j]) # ""
        /\ EndsWith(Strip(LinesOf(text)[i]), "?")

\* the first part of a decomposition, decomposed again
Redecomposed == pc = "redecomposed"

\* C26 as stated: a first part that holds no " and " and no list marker is
\* decomposed into itself alone.
C26_FirstPartAtomic ==
    (Redecomposed /\ ~Contains(" and ", context.query)
        /\ ~HasListMarker(context.query)) =>
        query_parts = <<context.query>>

\* C26: a first part that holds no " and ", no list marker and no line
\* ending with "?" after its first line is decomposed into itself alone.
C26_FirstPartAtomicUnlessQuestionLine ==
    (Redecomposed /\ ~Contains(" and ", context.query)
        /\ ~HasListMarker(context.query)
        /\ ~HasLaterQuestionLine(context.query)) =>
        query_parts = <<context.query>>

\* the first of several parts, of more than one line, was decomposed again
C26_Witness ==
    /\ Redecomposed
    /\ request.query # context.query
    /\ Contains("\n", context.query)
    /\ ~Contains(" and ", context.query)
    /\ ~HasListMarker(context.query)
    /\ ~HasLaterQuestionLine(context.query)
    /\ query_parts = <<context.query>>

Analyzed == pc = "analyzed"

Bonus(cond, points) == IF cond THEN points ELSE 0

\* C27 as stated: the score is the sum of the six bonuses, the compound
\* bonus being given to a query with " and " and exactly one "?".
C27_ScoreIsSumOfBonuses ==
    Analyzed =>
        complexity_analysis.complexity_score =
              Bonus(complexity_analysis.word_count > 50, 2)
            + Bonus(complexity_analysis.word_count > 100, 2)
            + Bonus(complexity_analysis.question_count > 1, 3)
            + Bonus(complexity_analysis.numbered_points > 2, 2)
            + Bonus(IsCompound(context.query), 4)
            + Bonus(CountChar(",", context.query) > 2, 2)

\* C27: the score is the sum of the six bonuses, the compound bonus being
\* given to a query with " and " (in any case) and at least one "?".
C27_ScoreIsSumOfBonusesAnyQuestion ==
    Analyzed =>
        /\ complexity_analysis.word_count = WordCount(context.query)
        /\ complexity_analysis.question_count = CountChar("?", context.query)
        /\ complexity_analysis.complexity_score =
              Bonus(complexity_analysis.word_count > 50, 2)
            + Bonus(complexity_analysis.word_count > 100, 2)
            + Bonus(complexity_analysis.question_count > 1, 3)
            + Bonus(complexity_analysis.numbered_points > 2, 2)
            + Bonus(Contains(" and ", Lower(context.query))
                       /\ CountChar("?", context.query) >= 1, 4)
            + Bonus(CountChar(",", context.query) > 2, 2)

\* a query with " and " and two question marks got both bonuses
C27_Witness ==
    /\ Analyzed
    /\ Contains(" and ", Lower(context.query))
    /\ complexity_analysis.question_count = 2
    /\ complexity_analysis.complexity_score = 3 + 4

Threshold(level) ==
    CASE level = "simple" -> 0
      [] level = "moderate" -> 3
      [] level = "complex" -> 6
      [] level = "very_complex" -> 8

Levels == {"simple", "moderate", "complex", "very_complex"}

\* C28: the level of every score reached is the one with the highest
\* threshold the score meets (simple 0, moderate 3, complex 6, very_complex
\* 8); chunking is required from 6 on, specialized processing from 4 on.
C28_LevelIsHighestThresholdMet ==
    Analyzed =>
        LET score == complexity_analysis.complexity_score
            level == complexity_analysis.complexity_level
        IN  /\ level \in Levels
            /\ Threshold(level) <= score
            /\ \A l \in Levels : Threshold(l) <= score => Threshold(l) <= Threshold(level)
            /\ complexity_analysis.requires_chunking <=> score >= 6
            /\ complexity_analysis.requires_specialized_processing <=> score >= 4

\* a score above every threshold was reached
C28_Witness ==
    /\ Analyzed
    /\ complexity_analysis.complexity_score > 8
    /\ complexity_analysis.complexity_level = "very_complex"
    /\ complexity_analysis.requires_chunking

\* C29: adding a feature to a query never lowers its complexity level; in
\* particular adding a second "?" does not.
C29_LevelNeverLowered ==
    [][(pc = "analyzed" /\ pc' = "analyzed") =>
          Threshold(complexity_analysis'.complexity_level)
              >= Threshold(complexity_analysis.complexity_level)]_vars

\* a second "?" was added to a compound query that was "complex" with one
C29_Witness ==
    /\ Analyzed
    /\ obs.analysis_calls > 1
    /\ EndsWith(context.query, "?")
    /\ complexity_analysis.question_count = 2
    /\ complexity_analysis.has_compound_question
    /\ complexity_analysis.has_multiple_topics
    /\ complexity_analysis.complexity_level = "very_complex"

\* the answers of the news monitor collected so far
NewsAnswers ==
    {agent_responses[k].content :
        k \in {j \in 1..Len(agent_responses) :
                  agent_responses[j].agent_type = NEWS_MONITOR}}

\* the news lookup was issued on top of the lookups of the gather
NewsSearchIssued == obs.searches > Len(obs.lookups)

\* C30: a query that holds "latest news on AI regulation" is classified
\* news_inquiry and routed to the news monitor, and the news answer lists the
\* source of every item the news search returned, or is the "no recent news
\* found" message when the search returned none (or the "unavailable"
\* message when the search was issued and failed).
C30_LatestNewsAnswered ==
    Contains("latest news on AI regulation", request.query) =>
        /\ front.stage # "start" =>
              /\ front.routing.query_type = "news_inquiry"
              /\ front.routing.primary_agent = NEWS_MONITOR
        /\ (front.stage # "start" /\ pc \in {"agent_loop", "dispatch"}
                /\ disp.site # "synthesis") =>
              /\ InSeq(NEWS_MONITOR, required_agents)
              /\ \A content \in NewsAnswers :
                    \/ content = NoNewsMessage
                    \/ Contains("*Source: ", content)
                    \/ content = NewsUnavailableMessage /\ NewsSearchIssued

\* the multi-part loop stands between two parts, or after the last one
BetweenParts == pc = "part_loop" /\ part_i > 1 /\ part_i <= Len(query_parts)

AfterLastPart == pc = "part_loop" /\ part_i > Len(query_parts)

\* C31: in the multi-part path the loop sleeps at least 2 seconds between
\* the end of the dispatch of a part and the start of the dispatch of the
\* next part, whether the dispatch succeeded or failed, and does not sleep
\* after the last part.
C31_DelayBetweenParts ==
    /\ BetweenParts => obs.last_sleep >= 2
    /\ AfterLastPart => obs.last_sleep = 0

\* the ids that are registered and were not removed since
Remembered == DOMAIN reg_env.registered \ reg_env.removed

\* C32: get_session(id) returns the session last registered under id, with
\* its agent_type, its user_context, created_at and last_activity set, as
\* long as cleanup_sessions has not removed it, and nothing for an id never
\* registered; update_session_activity neither creates nor removes a session.
C32_SessionLookup ==
    /\ DOMAIN active_sessions = Remembered
    /\ reg_env.returned.op = "get_session" =>
          LET id == reg_env.returned.session_id
              session == reg_env.returned.session
          IN  /\ id \in Remembered =>
                    /\ reg_env.returned.found
                    /\ session.agent_type = reg_env.registered[id].agent_type
                    /\ session.user_context = reg_env.registered[id].user_context
                    /\ session.created_at = reg_env.registered[id].created_at
                    /\ session.last_activity >= session.created_at
                    /\ session.last_activity <= reg_env.utcnow
              /\ id \notin DOMAIN reg_env.registered => ~reg_env.returned.found
              /\ id \in reg_env.removed => ~reg_env.returned.found

\* a session registered, refreshed an hour later and looked up after a
\* cleanup that removed the other session
C32_Witness ==
    /\ reg_env.returned.op = "get_session"
    /\ reg_env.returned.session_id = "test-session-123"
    /\ reg_env.returned.found
    /\ reg_env.returned.session.last_activity > reg_env.returned.session.created_at
    /\ reg_env.removed = {"test-session-456"}

\* the failure is a timeout: the request timed out, or the polling did
IndicatesTimeout(error) ==
    Contains("timeout", Lower(error)) \/ Contains("timed out", Lower(error))

\* C33: after a failed attempt that is not the last one and is not a
\* rate-limit failure the dispatcher sleeps exactly once and retries: 5
\* seconds when (and only when) the failure is a timeout, 2 seconds after
\* every other failure.
C33_TimeoutAndGenericDelays ==
    [][(/\ disp.phase = "failed"
        /\ disp.attempt < max_retries
        /\ ~IsRateLimit(disp.error)) =>
          /\ disp'.phase = "attempt"
          /\ disp'.attempt = disp.attempt + 1
          /\ Len(disp'.sleeps) = Len(disp.sleeps) + 1
          /\ disp'.wait = IF IndicatesTimeout(disp.error) THEN 5 ELSE 2]_vars

\* the text has no paragraph boundary and no sentence boundary
SingleSentence(text) == ~Contains("\n\n", text) /\ ~Contains(". ", text)

\* C34: a text longer than max_length that is one sentence, with no
\* paragraph or sentence boundary to split at, is returned by the chunker
\* cut and ended with an ellipsis, and what is returned is no longer than
\* max_length.
C34_SingleSentenceTruncated ==
    (pc = "DONE" /\ outcome = "returned" /\ ChunkerApplies
        /\ SingleSentence(FormattedResponse)) =>
        /\ EndsWith(result, "...")
        /\ StartsWith(FormattedResponse, Prefix(result, Len(result) - 3))
        /\ Len(result) <= context.max_response_length

\* the lookups that wrote the object, and those that wrote one key of it
WritersOf(obj) == {w.by : w \in {x \in gatherer.writes : x.obj = obj}}

WritersOfKey(obj, key) ==
    {w.by : w \in {x \in gatherer.writes : x.obj = obj /\ x.key = key}}

\* every lookup writes its own result slot only, and the search context is
\* computed when all lookups have settled, from what they settled with
SlotsAndAggregate ==
    /\ \A w \in gatherer.writes :
          w.obj = "search_responses" => w.key = ToString(w.by)
    /\ \A i \in 1..Len(gatherer.tasks) :
          gatherer.search_responses[i].settled
              <=> Write("search_responses", ToString(i), i) \in gatherer.writes
    /\ gatherer.phase = "gathering" => search_context = NoSearchContext
    /\ gatherer.phase = "aggregated" =>
          /\ \A i \in 1..Len(gatherer.tasks) : gatherer.search_responses[i].settled
          /\ Len(search_context.results) =
                Cardinality({i \in 1..Len(gatherer.tasks) :
                                gatherer.search_responses[i].out = "hit"})

CallerContext == IF entry = "orchestrator" THEN request ELSE TempContext(request)

\* the run has gone through _analyze_query_requirements of the standard path
RequirementsAnalysed ==
    /\ complexity_analysis /= NoAnalysis
    /\ ~complexity_analysis.requires_specialized_processing
    /\ pc \notin {"RECEIVED", "BASIC_CHECK", "COMPLEXITY_ANALYSIS", "STANDARD_PATH"}

\* the queries that hold one of the report keywords
ReportQueries ==
    {q \in Queries : \E k \in report_keywords : Contains(k, Lower(q))}

\* the run is in the multi-part path
InMultiPart ==
    /\ complexity_analysis /= NoAnalysis
    /\ complexity_analysis.requires_specialized_processing
    /\ Len(query_parts) > 1

\* C36: process_query changes no field of the QueryContext it was called
\* with, except that on the standard path a query with a report keyword gets
\* output_format "pdf"; in the multi-part path the context of a part is a
\* new context derived from the parent, which keeps all its fields.
C36_ContextUnchangedButPdf ==
    context /= NoContext =>
        /\ context.query = CallerContext.query
        /\ context.enable_chunking = CallerContext.enable_chunking
        /\ context.max_response_length = CallerContext.max_response_length
        /\ context.output_format /= CallerContext.output_format =>
              /\ RequirementsAnalysed
              /\ context.query \in ReportQueries
              /\ context.output_format = "pdf"
        /\ (RequirementsAnalysed
              /\ context.query \in ReportQueries) =>
              context.output_format = "pdf"
        /\ InMultiPart =>
              /\ context = CallerContext
              /\ \A i \in 1..Len(query_parts) :
                    LET part == part_context(context, query_parts[i])
                    IN  /\ part.query = query_parts[i]
                        /\ part.output_format = CallerContext.output_format
                        /\ ~part.enable_chunking

\* a report query asked for as text went down the standard path and came
\* back with the caller's context switched to pdf, the other fields as given
C36_Witness ==
    /\ entry = "orchestrator"
    /\ pc = "DONE"
    /\ RequirementsAnalysed
    /\ request.output_format = "text"
    /\ context.output_format = "pdf"
    /\ context.query = request.query

\* C37: a backend call whose run a status poll has seen COMPLETED is never
\* ended by the timeout failure, the poll that brings the elapsed time to the
\* 90 s limit included; the timeout is raised only for a run that is still
\* not terminal at the limit.
C37_CompletedNeverTimedOut ==
    [][(disp.phase = "polling" /\ disp.status = "completed") =>
          ~(disp'.phase = "failed" /\ disp'.error = TimeoutError)]_vars

TookStandardPath ==
    \/ pc = "STANDARD_PATH"
    \/ Len(obs.stages) >= 3 /\ obs.stages[3] = "STANDARD_PATH"

\* C39: the standard path is taken only with a complexity score below 4,
\* where requires_chunking (score 6 or more) is not set, so on that path the
\* chunker is never invoked: the formatted response is returned whole, also
\* when it is longer than max_response_length and enable_chunking is set.
C39_StandardPathNeverChunks ==
    TookStandardPath =>
        /\ complexity_analysis.complexity_score < 4
        /\ ~complexity_analysis.requires_chunking
        /\ (pc = "DONE" /\ outcome = "returned") =>
              result = format_output(context.output_format, composed)

\* a standard-path run with enable_chunking set has returned, whole, a
\* response longer than max_response_length
C39_Witness ==
    /\ pc = "DONE"
    /\ outcome = "returned"
    /\ TookStandardPath
    /\ context.enable_chunking
    /\ Len(result) > context.max_response_length
    /\ result = format_output(context.output_format, composed)

\* how the dispatches of the parts ended so far, in order
PartEnds ==
    SelectSeq(obs.log, LAMBDA e : e.site = "part" /\ e.ev \in {"ok", "fail"})

\* the dispatches of the parts started so far
PartStarts == SelectSeq(obs.log, LAMBDA e : e.site = "part" /\ e.ev = "start")

\* C40: in the multi-part path a part whose dispatch fails after all its
\* retries does not stop the run: the parts after it are dispatched in
\* order, the failed part keeps its numbered slot as an error entry, and the
\* run ends in DONE with the combined text, never in ERROR, also when every
\* part has failed.
C40_FailedPartKeepsSlot ==
    InMultiPart =>
        /\ pc /= "ERROR"
        /\ Len(responses) = Len(PartEnds)
        /\ Len(PartStarts) = Len(PartEnds) + (IF pc = "dispatch" THEN 1 ELSE 0)
        /\ pc = "dispatch" =>
              /\ part_i = Len(PartStarts)
              /\ disp.query = create_focused_prompt(query_parts[part_i], part_i,
                                                    Len(query_parts))
        /\ pc = "part_loop" => part_i = Len(PartEnds) + 1
        /\ \A i \in 1..Len(responses) :
              IF PartEnds[i].ev = "fail"
              THEN StartsWith(responses[i],
                              "**" \o ToString(i) \o ". Error processing part:** ")
              ELSE StartsWith(responses[i], "**" \o ToString(i) \o ". Response to: ")
        /\ pc \in {"FORMAT_AND_CHUNK", "DONE"} =>
              /\ Len(responses) = Len(query_parts)
              /\ composed = combined_response(responses)
        /\ pc = "DONE" =>
              /\ outcome = "returned"
              /\ result = format_output(context.output_format, composed)

\* a multi-part run in which every part failed has ended in DONE
C40_Witness ==
    /\ InMultiPart
    /\ pc = "DONE"
    /\ outcome = "returned"
    /\ Len(PartEnds) = Len(query_parts)
    /\ \A i \in 1..Len(PartEnds) : PartEnds[i].ev = "fail"
====
